---- MODULE Spec2Model ----
(***************************************************************************)
(* Model of the Jira extraction pipeline of MonteCarloJiraConnector:       *)
(*   src/connectorv3.py      JiraETLConnector  (jira library + PostgreSQL) *)
(*   src/data_extarction.py  JiraToDynamoDB    (REST + DynamoDB)           *)
(* Each component of the pipeline is a small state machine with its own    *)
(* specification (SpecFetch, ...); the variables of the components that a  *)
(* specification does not run stay at their idle values.                   *)
(***************************************************************************)
EXTENDS Integers, Sequences, FiniteSets, TLC

VARIABLES
    \* ---- paginated fetch (get_issues / extract_jira_issues)
    connector,          \* which fetch loop runs: "get_issues" | "extract_jira_issues" | "idle"
    upstream_total,     \* T: number of issues the upstream holds (keys 1..T)
    reports_total,      \* whether the newer search variant's response carries 'total'
    anomaly,            \* the one raw record of the upstream that is malformed, if any
    max_results,        \* page size
    max_total_issues,   \* cap (get_issues only)
    all_issues,         \* accumulated result (all_issues / issues in the source)
    start_at,           \* next offset
    fetch_pc,           \* "idle" | "loop" | "returned"
    log,                \* every search request and rate-limit pause, in order
    request_failed,     \* a page request has failed (exception reached the loop)
    normalize_raised,   \* normalizing a raw record raised inside the page loop
    calls,              \* the search calls made for the latest page, in order
    page_result,        \* what search_issues_new_endpoint gave the loop for that page
    \* ---- changelog transition extractor (extract_transitions)
    issues_in,              \* the issues handed to extract_transitions
    issues_reordered,       \* the same issues with their changelog reordered
    transitions,            \* extract_transitions(issues_in)
    transitions_reordered,  \* extract_transitions(issues_reordered)
    trans_pc,               \* "idle" | "input" | "extracted" | "compared"
    \* ---- story points (_safe_get_story_points)
    fields,             \* the raw 'fields' object: the three candidate custom fields
    story_points,       \* the value returned
    story_pc,           \* "idle" | "input" | "returned"
    \* ---- flow metrics (calculate_flow_metrics)
    flow_issues,        \* the issues argument
    flow_transitions,   \* the transitions argument
    daily_data,         \* per creation date: the counters of lines 352-357
    cycle_times,        \* issue id -> cycle time in whole days
    metrics,            \* the metric records returned
    flow_pc,            \* "idle" | "input" | "returned"
    \* ---- forecast (generate_forecast_items)
    metrics_in,         \* the metrics argument
    base_date,          \* datetime.now() at the call, as a day of the year
    forecasts,          \* the forecast records returned
    forecast_pc,        \* "idle" | "input" | "returned"
    \* ---- sink (insert_issues_into_db / save_to_dynamodb)
    issues_jira,        \* rows of the PostgreSQL table issues_jira
    jira_issues,        \* items of the DynamoDB table <prefix>_issues
    last_write,         \* per sink and issue key, the summary last stored under it
    sink_pc,            \* "idle" | "open"
    \* ---- one batch write (insert_issues_into_db / insert_transitions_into_db / save_to_dynamodb)
    bw_function,        \* the function called, or "idle"
    bw_batch,           \* the records handed to it
    bw_failing,         \* the position of the record whose write fails; 0 for none
    bw_stored,          \* the rows or items of the sink after the call
    bw_pc,              \* "idle" | "call" | "returned"
    \* ---- transition derivation over a list of issues (extract_transitions / extract_jira_transitions)
    derive_mode,        \* "extract_transitions" | "extract_jira_transitions" | "idle"
    derive_issues,      \* the issues argument, each with what the upstream holds for it
    derive_i,           \* the position of the for loop
    derive_requested,   \* the issue keys whose changelog was looked at, in order
    derive_transitions, \* the transitions list
    derive_pc,          \* "idle" | "loop" | "returned"
    \* ---- one full run (run_extraction)
    run_k,              \* the position in RunOrder of the call that is next
    run_result,         \* "idle" | "running" | "returned" | "raised"
    run_trace,          \* the calls that finished, in order, with the records each wrote
    run_tables,         \* the tables of the sink that exist
    run_upstream,       \* the number of issues the upstream holds for the query
    run_issues,         \* len(issues) after extract_jira_issues
    run_search_requests,\* the number of search requests issued
    run_raised_in,      \* the call whose exception left run_extraction, or "none"
    \* ---- one run of the relational connector (main of connectorv3.py)
    main_k,             \* the position in MainOrder of the call that is next
    main_result,        \* "idle" | "running" | "returned" | "raised"
    db,                 \* connector.db: "none" | "open" | "closed"
    jira_connection,    \* what connector.connect() returned: "unset" | "connected" | "None"
    main_projects,      \* len(projects)
    main_issues,        \* len(issues)
    main_transitions,   \* len(transitions)
    main_raised_in,     \* the call whose exception left main, or "none"
    \* ---- transitions sink (insert_transitions_into_db / save_to_dynamodb)
    tsink,              \* the sink written in this run: "postgres" | "dynamodb" | "idle"
    transitions_jira,   \* rows of the PostgreSQL table transitions_jira
    jira_transitions,   \* items of the DynamoDB table <prefix>_transitions
    transition_writes,  \* per composite key written, the author and duration last written
    tsink_pc,           \* "idle" | "open"
    \* ---- author of a transition (extract_transitions / extract_jira_transitions)
    author_mode,        \* "extract_transitions" | "extract_jira_transitions" | "idle"
    author_unset_raises,\* whether the library object raises on an author it was not given
    author_histories,   \* the history entries of the one issue of the call
    author_transitions, \* the transitions the call appended
    author_error,       \* "none" | "raised" (left the function) | "caught" (except clause)
    author_pc           \* "idle" | "input" | "done"

fetchVars == <<connector, upstream_total, reports_total, anomaly, max_results,
               max_total_issues, all_issues, start_at, fetch_pc, log,
               request_failed, normalize_raised, calls, page_result>>

transVars == <<issues_in, issues_reordered, transitions, transitions_reordered, trans_pc>>

storyVars == <<fields, story_points, story_pc>>

flowVars == <<flow_issues, flow_transitions, daily_data, cycle_times, metrics, flow_pc>>

forecastVars == <<metrics_in, base_date, forecasts, forecast_pc>>

sinkVars == <<issues_jira, jira_issues, last_write, sink_pc>>

batchVars == <<bw_function, bw_batch, bw_failing, bw_stored, bw_pc>>

deriveVars == <<derive_mode, derive_issues, derive_i, derive_requested,
                derive_transitions, derive_pc>>

runVars == <<run_k, run_result, run_trace, run_tables, run_upstream, run_issues,
             run_search_requests, run_raised_in>>

mainVars == <<main_k, main_result, db, jira_connection, main_projects, main_issues,
              main_transitions, main_raised_in>>

tsinkVars == <<tsink, transitions_jira, jira_transitions, transition_writes, tsink_pc>>

authorVars == <<author_mode, author_unset_raises, author_histories, author_transitions,
                author_error, author_pc>>

vars == <<fetchVars, transVars, storyVars, flowVars, forecastVars, sinkVars, batchVars,
          deriveVars, runVars, mainVars, tsinkVars, authorVars>>

\* what the actions of one component leave alone
notFetch == <<transVars, storyVars, flowVars, forecastVars, sinkVars, batchVars,
              deriveVars, runVars, mainVars, tsinkVars, authorVars>>

notTrans == <<fetchVars, storyVars, flowVars, forecastVars, sinkVars, batchVars,
              deriveVars, runVars, mainVars, tsinkVars, authorVars>>

notStory == <<fetchVars, transVars, flowVars, forecastVars, sinkVars, batchVars,
              deriveVars, runVars, mainVars, tsinkVars, authorVars>>

notFlow == <<fetchVars, transVars, storyVars, forecastVars, sinkVars, batchVars,
             deriveVars, runVars, mainVars, tsinkVars, authorVars>>

notForecast == <<fetchVars, transVars, storyVars, flowVars, sinkVars, batchVars,
                 deriveVars, runVars, mainVars, tsinkVars, authorVars>>

notSink == <<fetchVars, transVars, storyVars, flowVars, forecastVars, batchVars,
             deriveVars, runVars, mainVars, tsinkVars, authorVars>>

notBatch == <<fetchVars, transVars, storyVars, flowVars, forecastVars, sinkVars,
              deriveVars, runVars, mainVars, tsinkVars, authorVars>>

notDerive == <<fetchVars, transVars, storyVars, flowVars, forecastVars, sinkVars,
               batchVars, runVars, mainVars, tsinkVars, authorVars>>

notRun == <<fetchVars, transVars, storyVars, flowVars, forecastVars, sinkVars,
            batchVars, deriveVars, mainVars, tsinkVars, authorVars>>

notMain == <<fetchVars, transVars, storyVars, flowVars, forecastVars, sinkVars,
             batchVars, deriveVars, runVars, tsinkVars, authorVars>>

notTsink == <<fetchVars, transVars, storyVars, flowVars, forecastVars, sinkVars,
              batchVars, deriveVars, runVars, mainVars, authorVars>>

notAuthor == <<fetchVars, transVars, storyVars, flowVars, forecastVars, sinkVars,
               batchVars, deriveVars, runVars, mainVars, tsinkVars>>

\* the components a specification does not run stay idle
FetchIdle ==
    /\ connector = "idle" /\ upstream_total = 0 /\ reports_total = FALSE
    /\ anomaly = [idx |-> 0, field |-> "none", kind |-> "object"]
    /\ max_results = 0 /\ max_total_issues = 0 /\ all_issues = <<>> /\ start_at = 0
    /\ fetch_pc = "idle" /\ log = <<>>
    /\ request_failed = FALSE /\ normalize_raised = FALSE
    /\ calls = <<>> /\ page_result = <<>>

TransIdle ==
    /\ issues_in = <<>> /\ issues_reordered = <<>> /\ transitions = <<>>
    /\ transitions_reordered = <<>> /\ trans_pc = "idle"

StoryIdle == fields = <<>> /\ story_points = <<>> /\ story_pc = "idle"

FlowIdle ==
    /\ flow_issues = <<>> /\ flow_transitions = <<>> /\ daily_data = <<>>
    /\ cycle_times = <<>> /\ metrics = <<>> /\ flow_pc = "idle"

ForecastIdle ==
    metrics_in = <<>> /\ base_date = 0 /\ forecasts = <<>> /\ forecast_pc = "idle"

SinkIdle ==
    /\ issues_jira = {} /\ jira_issues = {} /\ last_write = <<>>
    /\ sink_pc = "idle"

BatchIdle ==
    /\ bw_function = "idle" /\ bw_batch = <<>> /\ bw_failing = 0
    /\ bw_stored = {} /\ bw_pc = "idle"

DeriveIdle ==
    /\ derive_mode = "idle" /\ derive_issues = <<>> /\ derive_i = 0
    /\ derive_requested = <<>> /\ derive_transitions = <<>> /\ derive_pc = "idle"

RunIdle ==
    /\ run_k = 0 /\ run_result = "idle" /\ run_trace = <<>> /\ run_tables = {}
    /\ run_upstream = 0 /\ run_issues = 0 /\ run_search_requests = 0
    /\ run_raised_in = "none"

MainIdle ==
    /\ main_k = 0 /\ main_result = "idle" /\ db = "none" /\ jira_connection = "unset"
    /\ main_projects = 0 /\ main_issues = 0 /\ main_transitions = 0
    /\ main_raised_in = "none"

TsinkIdle ==
    /\ tsink = "idle" /\ transitions_jira = {} /\ jira_transitions = {}
    /\ transition_writes = <<>> /\ tsink_pc = "idle"

AuthorIdle ==
    /\ author_mode = "idle" /\ author_unset_raises = FALSE /\ author_histories = <<>>
    /\ author_transitions = <<>> /\ author_error = "none" /\ author_pc = "idle"

\* ------------------------------------------------------------------ helpers

Min(a, b) == IF a < b THEN a ELSE b

Max(a, b) == IF a > b THEN a ELSE b

Range(s) == {s[i] : i \in DOMAIN s}

\* ------------------------------------------------------------------ bounds

\* upstream sizes 0..MaxSmallTotal are tried beside the sizes around one page
MaxSmallTotal == 4

\* the malformed raw record, when there is one, is among the first MaxAnomalyIdx
MaxAnomalyIdx == 2

\* ------------------------------------------------------------------ upstream

\* "None" stands for Python's None in a normalized record
None == "None"

Obj(name) == [kind |-> "object", name |-> name]

Malformed(kind) == [kind |-> kind, name |-> "raw text"]

\* the anomalies tried: none (idx = 0), or one field of record idx missing, null
\* or a string instead of an object
Anomalies ==
    {[idx |-> 0, field |-> "none", kind |-> "object"]}
    \cup [idx : 1..MaxAnomalyIdx,
          field : {"fields", "status", "priority", "issuetype", "assignee"},
          kind : {"missing", "null", "string"}]

\* the raw issue the upstream holds under key i, given the anomaly a
RawIssue(i, a) ==
    LET v(f, name) == IF a.idx = i /\ a.field = f THEN Malformed(a.kind) ELSE Obj(name)
    IN  [key |-> i,
         fields_kind |-> IF a.idx = i /\ a.field = "fields" THEN a.kind ELSE "object",
         summary |-> "summary",
         status |-> v("status", IF i % 2 = 0 THEN "Done" ELSE "Open"),
         priority |-> v("priority", "High"),
         issuetype |-> v("issuetype", "Bug"),
         assignee |-> v("assignee", "alice")]

\* the keys of the page an upstream holding total issues returns for an offset
\* and a page size it honours
UpstreamPage(total, offset, size) ==
    [i \in 1..Max(0, Min(size, total - offset)) |-> offset + i]

\* ------------------------------------------------------------------ Safe Field Extractor

Returned(v) == [raised |-> FALSE, value |-> v]

Raised == [raised |-> TRUE, value |-> None]

\* _safe_get_nested_field(fields, field_name, 'name', default): fields.get() gives
\* None for a missing or null field; field.get() raises AttributeError on a str
_safe_get_nested_field(field, default) ==
    CASE field.kind \in {"missing", "null"} -> Returned(default)
      [] field.kind = "string" -> Raised
      [] OTHER -> Returned(field.name)

\* _safe_get_user_name(user): user.get() raises AttributeError on a str
_safe_get_user_name(user) ==
    CASE user.kind \in {"missing", "null"} -> Returned(None)
      [] user.kind = "string" -> Raised
      [] OTHER -> Returned(user.name)

\* the dict literal of extract_jira_issues, lines 197-216: issue_raw.get('fields', {})
\* is {} when the key is missing and the stored value (None, a str) otherwise, and
\* the first fields.get() on None or a str raises AttributeError
NormalizeIssue(raw) ==
    LET absent == Malformed("missing")
        f(x)   == IF raw.fields_kind = "missing" THEN absent ELSE x
        status == _safe_get_nested_field(f(raw.status), "Unknown")
        assignee == _safe_get_user_name(f(raw.assignee))
        priority == _safe_get_nested_field(f(raw.priority), None)
        issue_type == _safe_get_nested_field(f(raw.issuetype), "Unknown")
    IN  [raised |-> \/ raw.fields_kind \in {"null", "string"}
                    \/ status.raised \/ assignee.raised
                    \/ priority.raised \/ issue_type.raised,
         issue_data |->
            [issue_id |-> raw.key,
             summary |-> IF raw.fields_kind = "missing" THEN "" ELSE raw.summary,
             status |-> status.value,
             assignee |-> assignee.value,
             priority |-> priority.value,
             issue_type |-> issue_type.value]]

\* the for loop over one batch, lines 196-217: records are appended one by one and
\* the first raise leaves the loop with the records appended before it
NormalizeBatch(batch) ==
    LET bad == {i \in DOMAIN batch : NormalizeIssue(batch[i]).raised}
        stop == IF bad = {} THEN Len(batch) + 1
                ELSE CHOOSE i \in bad : \A j \in bad : i <= j
    IN  [raised |-> bad # {},
         emitted |-> [i \in 1..(stop - 1) |-> NormalizeIssue(batch[i]).issue_data]]

\* ------------------------------------------------------------------ Paginated Issue Fetcher

PageSizes == {2, 50}

Caps == {3, 4, 40, 500}

UpstreamTotals == (0..MaxSmallTotal) \cup {50, 73, 120}

\* one entry of the log: a search request as it is sent (sends_offset is FALSE
\* when the request carries no start offset) or a rate-limit pause
Request(op, sends_offset, offset, size, fetched) ==
    [op |-> op, sends_offset |-> sends_offset, startAt |-> offset,
     maxResults |-> size, fetched |-> fetched]

Pause == Request("sleep", FALSE, 0, 0, 0)

\* a request that ignores the remaining allowance
RequestSizeUncapped(page, cap, fetched) == page

\* maxResults of get_issues' request: min(max_results, max_total_issues - len(all_issues))
RequestSize(page, cap, fetched) == Min(page, cap - fetched)

\* the library issue objects of one page
IssueObjects(keys) == [i \in DOMAIN keys |-> [key |-> keys[i]]]

\* a handler that drops the partial result
AfterFailedRequestDiscards(accumulated) == <<>>

\* what the fetch loops return when a page request raises: the except clause
\* breaks and the accumulated list is returned as it is
AfterFailedRequest(accumulated) == accumulated

\* a loop that never checks the cap
NeverReachedCap(fetched, cap) == FALSE

\* the check at the top of get_issues' loop: len(all_issues) >= max_total_issues
ReachedCap(fetched, cap) == fetched >= cap

\* one iteration of the while loop of JiraETLConnector.get_issues
GetIssuesIteration ==
    /\ fetch_pc = "loop"
    /\ connector = "get_issues"
    /\ UNCHANGED <<connector, upstream_total, reports_total, anomaly, max_results,
                   max_total_issues, normalize_raised, calls, page_result>>
    /\ UNCHANGED notFetch
    /\ IF ReachedCap(Len(all_issues), max_total_issues)
       THEN /\ fetch_pc' = "returned"
            /\ UNCHANGED <<all_issues, start_at, log, request_failed>>
       ELSE \E outcome \in {"ok", "error"} :
            LET size == RequestSize(max_results, max_total_issues, Len(all_issues))
                req == Request("search_issues", TRUE, start_at, size, Len(all_issues))
                issues == IssueObjects(UpstreamPage(upstream_total, start_at, size))
            IN  IF outcome = "error"
                THEN /\ log' = Append(log, req)
                     /\ request_failed' = TRUE
                     /\ all_issues' = AfterFailedRequest(all_issues)
                     /\ fetch_pc' = "returned"
                     /\ UNCHANGED start_at
                ELSE /\ UNCHANGED request_failed
                     /\ IF issues = <<>>
                        THEN /\ log' = Append(log, req)
                             /\ fetch_pc' = "returned"
                             /\ UNCHANGED <<all_issues, start_at>>
                        ELSE /\ all_issues' = all_issues \o issues
                             /\ IF Len(issues) < max_results
                                THEN /\ log' = Append(log, req)
                                     /\ fetch_pc' = "returned"
                                     /\ UNCHANGED start_at
                                ELSE /\ start_at' = start_at + max_results
                                     /\ log' = log \o <<req, Pause>>
                                     /\ fetch_pc' = "loop"

\* the response of the newer search variant: its payload (lines 113-130) carries
\* jql, maxResults and fields but no start offset, so the page starts at offset 0
NewEndpointResponse(total, with_total, a, offset, size) ==
    LET keys == UpstreamPage(total, 0, size)
    IN  [issues |-> [i \in DOMAIN keys |-> RawIssue(keys[i], a)],
         total |-> IF with_total THEN total ELSE 0]

\* the response of the fallback search: startAt and maxResults are sent (lines 156-161)
FallbackResponse(total, a, offset, size) ==
    LET keys == UpstreamPage(total, offset, size)
    IN  [issues |-> [i \in DOMAIN keys |-> RawIssue(keys[i], a)],
         total |-> total]

\* the filter expression built at line 181
Jql == "project = P AND updated >= D ORDER BY created DESC"

\* one call of a search variant with its arguments and how the upstream answered
Call(op, jql, offset, size, outcome) ==
    [op |-> op, jql |-> jql, startAt |-> offset, maxResults |-> size,
     outcome |-> outcome]

\* search_issues_fallback: raise_for_status() raises on an error status and the
\* except clause logs and re-raises
search_issues_fallback(outcome, jql, total, a, offset, size) ==
    [calls |-> <<Call("search_fallback", jql, offset, size, outcome)>>,
     raised |-> outcome = "error",
     response |-> IF outcome = "error" THEN <<>>
                  ELSE FallbackResponse(total, a, offset, size)]

\* search_issues_new_endpoint: on a non-200 status the fallback is called at line
\* 142, inside the try block, so an exception of that call is caught by the except
\* clause of line 146, which calls the fallback again at line 149; an exception of
\* the request itself reaches line 149 directly
search_issues_new_endpoint(newer, older, retry, jql, total, with_total, a, offset, size) ==
    LET this == Call("search_new", jql, offset, size, newer)
        first == search_issues_fallback(older, jql, total, a, offset, size)
        second == search_issues_fallback(retry, jql, total, a, offset, size)
    IN  IF newer = "200"
        THEN [calls |-> <<this>>, raised |-> FALSE,
              response |-> NewEndpointResponse(total, with_total, a, offset, size)]
        ELSE IF newer = "non-200" /\ first.raised
        THEN [calls |-> <<this>> \o first.calls \o second.calls,
              raised |-> second.raised, response |-> second.response]
        ELSE [calls |-> <<this>> \o first.calls,
              raised |-> first.raised, response |-> first.response]

\* one iteration of the while loop of JiraToDynamoDB.extract_jira_issues, with the
\* call of search_issues_new_endpoint and the fallback calls it makes; found is
\* what that call gave and normalized what the for loop over the batch made of it
ExtractJiraIssuesIteration ==
    /\ fetch_pc = "loop"
    /\ connector = "extract_jira_issues"
    /\ UNCHANGED <<connector, upstream_total, reports_total, anomaly, max_results,
                   max_total_issues>>
    /\ UNCHANGED notFetch
    /\ \E newer \in {"200", "non-200", "exception"}, older, retry \in {"ok", "error"} :
       \E found \in {search_issues_new_endpoint(newer, older, retry, Jql, upstream_total,
                                                reports_total, anomaly, start_at,
                                                max_results)} :
        LET fetched == Len(all_issues)
            result == found.response
            batch == result.issues
        IN  /\ calls' = found.calls
            /\ page_result' = [raised |-> found.raised, response |-> found.response]
            /\ log' = log \o [i \in DOMAIN found.calls |->
                                Request(found.calls[i].op, found.calls[i].op # "search_new",
                                        found.calls[i].startAt, found.calls[i].maxResults,
                                        fetched)]
            /\ IF found.raised
               THEN /\ request_failed' = TRUE
                    /\ all_issues' = AfterFailedRequest(all_issues)
                    /\ fetch_pc' = "returned"
                    /\ UNCHANGED <<start_at, normalize_raised>>
               ELSE /\ UNCHANGED request_failed
                    /\ IF batch = <<>>
                       THEN /\ fetch_pc' = "returned"
                            /\ UNCHANGED <<all_issues, start_at, normalize_raised>>
                       ELSE \E normalized \in {NormalizeBatch(batch)} :
                            /\ all_issues' = all_issues \o normalized.emitted
                            /\ IF normalized.raised
                               THEN /\ normalize_raised' = TRUE
                                    /\ fetch_pc' = "returned"
                                    /\ UNCHANGED start_at
                               ELSE /\ UNCHANGED normalize_raised
                                    /\ start_at' = start_at + max_results
                                    /\ fetch_pc' =
                                         IF \/ Len(batch) < max_results
                                            \/ start_at' >= result.total
                                         THEN "returned" ELSE "loop"

\* the state at the entry of the while loop: all_issues = [], start_at = 0
FetchInit ==
    /\ connector \in {"get_issues", "extract_jira_issues"}
    /\ upstream_total \in UpstreamTotals
    /\ IF connector = "get_issues"
       THEN /\ max_results \in PageSizes
            /\ max_total_issues \in Caps
            /\ reports_total = TRUE
            /\ anomaly = [idx |-> 0, field |-> "none", kind |-> "object"]
       ELSE /\ max_results = 50
            /\ max_total_issues = 0
            /\ reports_total \in BOOLEAN
            /\ anomaly \in Anomalies
    /\ all_issues = <<>>
    /\ start_at = 0
    /\ fetch_pc = "loop"
    /\ log = <<>>
    /\ request_failed = FALSE
    /\ normalize_raised = FALSE
    /\ calls = <<>>
    /\ page_result = <<>>

FetchNext == GetIssuesIteration \/ ExtractJiraIssuesIteration

\* the whole state at the start: this component at its entry, the others idle
InitFetch ==
    FetchInit /\ TransIdle /\ StoryIdle /\ FlowIdle /\ ForecastIdle /\ SinkIdle
    /\ BatchIdle /\ DeriveIdle /\ RunIdle /\ MainIdle /\ TsinkIdle
    /\ AuthorIdle

SpecFetch == InitFetch /\ [][FetchNext]_vars

\* the fetch as it runs: the loop is sequential code that takes its next iteration
\* whenever it has not returned, and every request comes back (with a finite page
\* or an exception)
SpecFetchLive == SpecFetch /\ WF_vars(FetchNext)

\* ------------------------------------------------------------------ claims on the fetch loops

\* the issue keys of the result, in order
FetchedKeys ==
    [i \in DOMAIN all_issues |->
        IF connector = "get_issues" THEN all_issues[i].key ELSE all_issues[i].issue_id]

SearchRequests == SelectSeq(log, LAMBDA r : r.op # "sleep")

\* the upstream never failed: every page came from the first search call
UpstreamNeverFailed ==
    /\ ~request_failed
    /\ \A i \in DOMAIN log : log[i].op # "search_fallback"

\* C1: for an upstream of T issues that never fails and honours offset and page
\* size, the finished fetch (get_issues below the cap, extract_jira_issues through
\* the newer search variant) holds exactly the T issues, once each and in upstream
\* order, was asked at offsets 0, P, 2P, ..., and for T = 73, P = 50 took 2 pages.
C1_FetchReturnsEachUpstreamIssueOnce ==
    ( /\ fetch_pc = "returned"
      /\ UpstreamNeverFailed
      /\ anomaly.idx = 0
      /\ connector = "get_issues" => upstream_total < max_total_issues )
    => /\ FetchedKeys = [i \in 1..upstream_total |-> i]
       /\ \A i \in DOMAIN SearchRequests :
            /\ SearchRequests[i].sends_offset
            /\ SearchRequests[i].startAt = (i - 1) * max_results
       /\ (upstream_total = 73 /\ max_results = 50)
            => (Len(SearchRequests) = 2 /\ Len(all_issues) = 73)

\* the half of C1 that is about get_issues alone
GetIssuesReturnsEachUpstreamIssueOnce ==
    connector = "get_issues" => C1_FetchReturnsEachUpstreamIssueOnce

\* C2: get_issues never holds more than max_total_issues issues and never asks
\* for more than the remaining allowance; with max_total_issues = 40 and
\* max_results = 50 it stops after the first page although more exist upstream.
C2_GetIssuesRespectsCap ==
    connector = "get_issues" =>
        /\ Len(all_issues) <= max_total_issues
        /\ \A i \in DOMAIN SearchRequests :
              SearchRequests[i].maxResults <= max_total_issues - SearchRequests[i].fetched
        /\ ( /\ fetch_pc = "returned" /\ ~request_failed
             /\ max_total_issues = 40 /\ max_results = 50 /\ upstream_total > 40 )
           => (Len(SearchRequests) = 1 /\ Len(all_issues) = 40)

C2_Witness ==
    /\ connector = "get_issues" /\ fetch_pc = "returned" /\ ~request_failed
    /\ max_total_issues = 40 /\ max_results = 50 /\ upstream_total = 73
    /\ Len(all_issues) = 40

\* what C6 expects of one raw record: a field that is missing, null or wrongly
\* typed takes its default and every other field keeps its extracted value
IsolatedDefaults(raw) ==
    LET fields_ok == raw.fields_kind = "object"
        get(field, default) ==
            IF fields_ok /\ field.kind = "object" THEN field.name ELSE default
    IN  [issue_id |-> raw.key,
         summary |-> IF fields_ok THEN raw.summary ELSE "",
         status |-> get(raw.status, "Unknown"),
         assignee |-> get(raw.assignee, None),
         priority |-> get(raw.priority, None),
         issue_type |-> get(raw.issuetype, "Unknown")]

\* C6: normalizing a raw record in extract_jira_issues never raises and never ends
\* the page loop: a malformed field alone takes its default, and the record and
\* all later records are still emitted.
C6_NormalizationNeverEndsTheLoop ==
    connector = "extract_jira_issues" =>
        /\ ~normalize_raised
        /\ \A i \in DOMAIN all_issues :
              all_issues[i] = IsolatedDefaults(RawIssue(all_issues[i].issue_id, anomaly))

\* C10: when the request for a page fails, the loop stops without raising, no
\* further page is requested, and what was accumulated before is returned as is.
C10_FailedPageReturnsAccumulated ==
    [][ /\ fetch_pc # "returned"
        /\ (request_failed' /\ ~request_failed)
             => (all_issues' = all_issues /\ fetch_pc' = "returned") ]_vars

C10_Witness ==
    /\ connector = "extract_jira_issues" /\ fetch_pc = "returned" /\ request_failed
    /\ Len(all_issues) = max_results

\* the fallback was called a second time for the latest page
FallbackRetried == Len(calls) = 3

\* C11: when the newer search variant reports a non-200 status or raises, the
\* fallback search is called exactly once for that page with the same filter
\* expression, start offset and page size, and its response is what the page
\* fetch returns; when the newer variant succeeds the fallback is not called, and
\* when the fallback fails the error reaches the fetch loop.
C11_FallbackOncePerFailedPage ==
    calls # <<>> =>
        LET newer == calls[1]
        IN  /\ newer.op = "search_new"
            /\ newer.outcome = "200" =>
                  /\ Len(calls) = 1
                  /\ page_result =
                        [raised |-> FALSE,
                         response |-> NewEndpointResponse(upstream_total, reports_total,
                                          anomaly, newer.startAt, newer.maxResults)]
            /\ newer.outcome # "200" =>
                  /\ Len(calls) = 2
                  /\ calls[2] = Call("search_fallback", newer.jql, newer.startAt,
                                     newer.maxResults, calls[2].outcome)
                  /\ calls[2].outcome = "ok" =>
                        page_result =
                          [raised |-> FALSE,
                           response |-> FallbackResponse(upstream_total, anomaly,
                                            newer.startAt, newer.maxResults)]
                  /\ calls[2].outcome = "error" =>
                        (page_result.raised /\ request_failed)

\* C11 holds for every page on which the fallback was not called a second time
FallbackOnceUnlessRetried == ~FallbackRetried => C11_FallbackOncePerFailedPage

\* the page of C11's failure: a non-200 status, a failing fallback call, and a
\* second fallback call whose response the loop consumed
FallbackRetriedAndServed ==
    /\ FallbackRetried /\ calls[1].outcome = "non-200" /\ calls[2].outcome = "error"
    /\ calls[3].outcome = "ok" /\ ~request_failed /\ Len(all_issues) > 0

\* the positions of the log at which the request for a page starts: the library
\* search of get_issues (line 80) and the call of search_issues_new_endpoint of
\* extract_jira_issues (line 190); the fallback requests belong to the same page
PageRequests == {i \in DOMAIN log : log[i].op \in {"search_issues", "search_new"}}

\* C21: within one fetch of get_issues or extract_jira_issues a rate-limit pause
\* lies between any two successive page requests: no two search requests for
\* consecutive pages are issued without a pause in between.
C21_PauseBetweenPageRequests ==
    \A i, j \in PageRequests :
        i < j => \E k \in (i + 1)..(j - 1) : log[k] = Pause

\* C21 holds for get_issues, which sleeps at line 98 before the next iteration
GetIssuesPausesBetweenPages ==
    connector = "get_issues" => C21_PauseBetweenPageRequests

GetIssuesPausedBetweenThreePages ==
    /\ connector = "get_issues" /\ Cardinality(PageRequests) = 3
    /\ fetch_pc = "returned" /\ ~request_failed

\* the fetch of C21's failure: extract_jira_issues asked for two pages, one right
\* after the other
TwoPagesWithoutPause ==
    /\ connector = "extract_jira_issues" /\ fetch_pc = "returned"
    /\ Cardinality(PageRequests) = 2
    /\ \A k \in DOMAIN log : log[k] # Pause

\* ceil(a / b) for b > 0
CeilDiv(a, b) == (a + b - 1) \div b

\* C22: the pagination loop always terminates: whatever finite total the upstream
\* holds, whether or not it reports it, and whichever requests fail, get_issues
\* and extract_jira_issues eventually return; and get_issues never issues more
\* than ceil(max_total_issues / max_results) search requests.
C22_PaginationTerminates ==
    /\ <>(fetch_pc = "returned")
    /\ [](connector = "get_issues" =>
            Len(SearchRequests) <= CeilDiv(max_total_issues, max_results))

\* get_issues returned after exactly ceil(max_total_issues / max_results) requests,
\* the last of them for the remaining allowance
C22_Witness ==
    /\ connector = "get_issues" /\ fetch_pc = "returned" /\ ~request_failed
    /\ Len(SearchRequests) = CeilDiv(max_total_issues, max_results)
    /\ Len(SearchRequests) >= 2
    /\ Len(all_issues) = max_total_issues

\* extract_jira_issues returned after three pages of the newer search variant,
\* which reports the total
ExtractJiraIssuesReturnedAfterThreePages ==
    /\ connector = "extract_jira_issues" /\ fetch_pc = "returned" /\ ~request_failed
    /\ Cardinality(PageRequests) = 3
    /\ \A k \in DOMAIN log : log[k].op = "search_new"

\* ------------------------------------------------------------------ Changelog Transition Extractor

\* the most history entries one changelog holds
MaxHistories == 3

\* history.created strings "%Y-%m-%dT%H:%M:%S.%f%z": the wall-clock time in minutes
\* and the UTC offset in minutes; the last one lies in a different offset
Timestamps ==
    {[local |-> 60, offset |-> 0], [local |-> 70, offset |-> 0],
     [local |-> 120, offset |-> 0], [local |-> 90, offset |-> 60]}

StatusItem(from, to) == [field |-> "status", fromString |-> from, toString |-> to]

OtherItem == [field |-> "assignee", fromString |-> "alice", toString |-> "bob"]

\* the item lists of one history entry
ItemLists ==
    {<<StatusItem("To Do", "In Progress")>>,
     <<OtherItem, StatusItem("In Progress", "Done")>>,
     <<StatusItem("To Do", "In Progress"), StatusItem("In Progress", "Done")>>}

Histories == [created : Timestamps, author : {"alice"}, items : ItemLists]

SeqsUpTo(S, n) == UNION {[1..k -> S] : k \in 0..n}

\* a library issue with its expanded changelog
IssueWithChangelog(key, histories) ==
    [key |-> key, has_changelog |-> TRUE, histories |-> histories]

\* datetime.strptime(s, "%Y-%m-%dT%H:%M:%S.%f%z"): an aware datetime; its instant
\* is the wall-clock time minus the UTC offset
Strptime(s) == [local |-> s.local, offset |-> s.offset, instant |-> s.local - s.offset]

\* current_time.strftime("%Y-%m-%d %H:%M:%S"): the wall-clock fields, no offset
Strftime(dt) == dt.local

\* x['transition_date'] <= y['transition_date'] on the strings: the fixed-width
\* wall-clock part is compared first, then the offset text
DateStringLeq(x, y) ==
    \/ x.local < y.local
    \/ x.local = y.local /\ x.offset <= y.offset

\* the sort left out
UnsortedByDate(s) == s

RECURSIVE SortByDate(_)
\* status_changes.sort(key=lambda x: x['transition_date']): a stable sort on the
\* date string (equal keys keep their input order)
SortByDate(s) ==
    IF s = <<>> THEN <<>>
    ELSE LET front == SortByDate(SubSeq(s, 1, Len(s) - 1))
             x == s[Len(s)]
             keep == {i \in DOMAIN front :
                        DateStringLeq(front[i].transition_date, x.transition_date)}
             k == Cardinality(keep)
         IN  SubSeq(front, 1, k) \o <<x>> \o SubSeq(front, k + 1, Len(front))

\* a duration: <<>> is None, <<h>> is h hundredths of an hour
NoDuration == <<>>

Duration(h) == <<h>>

\* round((next_time - current_time).total_seconds() / 3600, 2), in hundredths of
\* an hour, for a difference given in minutes
HoursRounded(minutes) == (10 * minutes + 3) \div 6

\* the status changes of one history entry, lines 120-128
StatusChangesOfHistory(key, history) ==
    LET items == SelectSeq(history.items, LAMBDA item : item.field = "status")
    IN  [i \in DOMAIN items |->
            [issue_key |-> key,
             from_status |-> items[i].fromString,
             to_status |-> items[i].toString,
             transition_date |-> history.created,
             author |-> history.author]]

RECURSIVE StatusChanges(_, _)
\* the status changes of one changelog in input order, lines 117-128
StatusChanges(key, histories) ==
    IF histories = <<>> THEN <<>>
    ELSE StatusChanges(key, SubSeq(histories, 1, Len(histories) - 1))
         \o StatusChangesOfHistory(key, histories[Len(histories)])

\* the transitions of one issue, lines 112-149
TransitionsOfIssue(issue) ==
    IF ~issue.has_changelog THEN <<>>
    ELSE LET status_changes == SortByDate(StatusChanges(issue.key, issue.histories))
         IN  [i \in DOMAIN status_changes |->
                LET current == status_changes[i]
                    current_time == Strptime(current.transition_date)
                IN  [issue_key |-> current.issue_key,
                     from_status |-> current.from_status,
                     to_status |-> current.to_status,
                     author |-> current.author,
                     transition_date |-> Strftime(current_time),
                     time_in_status_hours |->
                        IF i + 1 <= Len(status_changes)
                        THEN Duration(HoursRounded(
                                Strptime(status_changes[i + 1].transition_date).instant
                                - current_time.instant))
                        ELSE NoDuration]]

RECURSIVE extract_transitions(_)
\* JiraETLConnector.extract_transitions(all_issues)
extract_transitions(issues) ==
    IF issues = <<>> THEN <<>>
    ELSE extract_transitions(SubSeq(issues, 1, Len(issues) - 1))
         \o TransitionsOfIssue(issues[Len(issues)])

\* s with its elements i and i+1 exchanged
SwapAdjacent(s, i) ==
    [j \in DOMAIN s |-> IF j = i THEN s[i + 1] ELSE IF j = i + 1 THEN s[i] ELSE s[j]]

\* the reorderings of one changelog by one exchange: of two neighbouring history
\* entries, or of two neighbouring items of one entry.  Every reordering of the
\* entries and of their items is a chain of these.
Reorderings(histories) ==
    ( {SwapAdjacent(histories, i) : i \in 1..(Len(histories) - 1)}
      \cup UNION {{[histories EXCEPT ![h].items = SwapAdjacent(@, i)] :
                     i \in 1..(Len(histories[h].items) - 1)} : h \in DOMAIN histories} )
    \ {histories}

TransInit ==
    /\ issues_in \in {<<IssueWithChangelog("TEST-1", hs)>> : hs \in SeqsUpTo(Histories, MaxHistories)}
    /\ issues_reordered = <<>>
    /\ transitions = <<>>
    /\ transitions_reordered = <<>>
    /\ trans_pc = "input"

\* transitions = connector.extract_transitions(issues)
ExtractTransitions ==
    /\ trans_pc = "input"
    /\ transitions' = extract_transitions(issues_in)
    /\ trans_pc' = "extracted"
    /\ UNCHANGED <<issues_in, issues_reordered, transitions_reordered>>
    /\ UNCHANGED notTrans

\* the same call on a reordering of the same changelog
ExtractTransitionsReordered ==
    /\ trans_pc = "extracted"
    /\ \E hs \in Reorderings(issues_in[1].histories) :
          issues_reordered' = <<IssueWithChangelog(issues_in[1].key, hs)>>
    /\ transitions_reordered' = extract_transitions(issues_reordered')
    /\ trans_pc' = "compared"
    /\ UNCHANGED <<issues_in, transitions>>
    /\ UNCHANGED notTrans

TransNext == ExtractTransitions \/ ExtractTransitionsReordered

\* the whole state at the start: this component at its entry, the others idle
InitTransitions ==
    TransInit /\ FetchIdle /\ StoryIdle /\ FlowIdle /\ ForecastIdle /\ SinkIdle
    /\ BatchIdle /\ DeriveIdle /\ RunIdle /\ MainIdle /\ TsinkIdle
    /\ AuthorIdle

SpecTransitions == InitTransitions /\ [][TransNext]_vars

\* ------------------------------------------------------------------ claims on the transition extractor

\* the status-change items of the one input issue, in input order
InputStatusChanges == StatusChanges(issues_in[1].key, issues_in[1].histories)

EventTime(change) == Strptime(change.transition_date).instant

DistinctEventTimes(changes) ==
    \A i, j \in DOMAIN changes : i # j => EventTime(changes[i]) # EventTime(changes[j])

\* the k-th of the changes in ascending order of event time (times distinct)
ByEventTime(changes, k) ==
    changes[CHOOSE i \in DOMAIN changes :
              Cardinality({j \in DOMAIN changes :
                             EventTime(changes[j]) < EventTime(changes[i])}) = k - 1]

\* C3: n >= 1 status changes of one issue at pairwise distinct event times give
\* exactly n transitions in ascending order of event time; each but the last
\* carries the time to the next one as its dwell time, the last one none; items
\* of other fields give no transition.
C3_DurationsFollowEventTimeOrder ==
    ( /\ trans_pc \in {"extracted", "compared"}
      /\ Len(InputStatusChanges) >= 1
      /\ DistinctEventTimes(InputStatusChanges) )
    => LET n == Len(InputStatusChanges)
       IN  /\ Len(transitions) = n
           /\ \A k \in 1..n :
                LET c == ByEventTime(InputStatusChanges, k)
                IN  /\ transitions[k].from_status = c.from_status
                    /\ transitions[k].to_status = c.to_status
                    /\ transitions[k].transition_date = c.transition_date.local
                    /\ transitions[k].time_in_status_hours =
                         IF k < n
                         THEN Duration(HoursRounded(
                                 EventTime(ByEventTime(InputStatusChanges, k + 1))
                                 - EventTime(c)))
                         ELSE NoDuration

\* C3 for changelogs whose timestamps all carry one UTC offset
SingleOffsetDurationsFollowEventTimeOrder ==
    (\A h \in Range(issues_in[1].histories) : h.created.offset = 0)
    => C3_DurationsFollowEventTimeOrder

\* C4 as stated: the transitions of an issue are the same for every reordering
\* of its history entries and of their items, whether or not the event times
\* are pairwise distinct.
C4_AnyReorderingSameTransitions ==
    trans_pc = "compared" => transitions_reordered = transitions

\* C4 as amended: the transitions of an issue are the same for every reordering
\* of its history entries and of their items, provided its status changes lie
\* at pairwise distinct event times.
C4_ReorderingSameTransitionsWhenTimesDistinct ==
    (trans_pc = "compared" /\ DistinctEventTimes(InputStatusChanges))
    => transitions_reordered = transitions

C4_Witness ==
    /\ trans_pc = "compared"
    /\ DistinctEventTimes(InputStatusChanges)
    /\ Len(transitions) = 3
    /\ StatusChanges(issues_reordered[1].key, issues_reordered[1].histories)
         # InputStatusChanges
    /\ transitions_reordered = transitions

\* ------------------------------------------------------------------ story points

\* story_point_fields, line 317
story_point_fields == <<"customfield_10016", "customfield_10002", "customfield_10004">>

\* the values one candidate field may hold: absent from the dict, null, a
\* non-numeric string, or a number
CandidateValues ==
    {[kind |-> "absent", num |-> 0], [kind |-> "null", num |-> 0],
     [kind |-> "string", num |-> 0], [kind |-> "number", num |-> 0],
     [kind |-> "number", num |-> 5]}

\* fields.get(field_id) is None
IsNone(value) == value.kind \in {"absent", "null"}

\* a story-point result: <<>> is None, <<x>> is float(x)
NoPoints == <<>>

Points(x) == <<x>>

RECURSIVE StoryPointsFrom(_, _)
\* the for loop of _safe_get_story_points from candidate i on: the first
\* candidate that is not None ends the loop, with float(value) when it is an
\* int or a float and with None otherwise
StoryPointsFrom(fs, i) ==
    IF i > Len(story_point_fields) THEN NoPoints
    ELSE LET value == fs[story_point_fields[i]]
         IN  IF ~IsNone(value)
             THEN IF value.kind = "number" THEN Points(value.num) ELSE NoPoints
             ELSE StoryPointsFrom(fs, i + 1)

_safe_get_story_points(fs) == StoryPointsFrom(fs, 1)

StoryInit ==
    /\ fields \in [Range(story_point_fields) -> CandidateValues]
    /\ story_points = NoPoints
    /\ story_pc = "input"

\* 'story_points': self._safe_get_story_points(fields)
SafeGetStoryPoints ==
    /\ story_pc = "input"
    /\ story_points' = _safe_get_story_points(fields)
    /\ story_pc' = "returned"
    /\ UNCHANGED fields
    /\ UNCHANGED notStory

StoryNext == SafeGetStoryPoints

\* the whole state at the start: this component at its entry, the others idle
InitStoryPoints ==
    StoryInit /\ FetchIdle /\ TransIdle /\ FlowIdle /\ ForecastIdle /\ SinkIdle
    /\ BatchIdle /\ DeriveIdle /\ RunIdle /\ MainIdle /\ TsinkIdle
    /\ AuthorIdle

SpecStoryPoints == InitStoryPoints /\ [][StoryNext]_vars

\* ------------------------------------------------------------------ claims on story points

\* the positions of the numeric candidates
NumericCandidates ==
    {i \in DOMAIN story_point_fields : fields[story_point_fields[i]].kind = "number"}

\* C5: _safe_get_story_points returns the first numeric value among its
\* candidates in the order customfield_10016, customfield_10002,
\* customfield_10004, skipping absent, null and non-numeric ones, and None only
\* when no candidate is numeric.
C5_FirstNumericCandidateWins ==
    story_pc = "returned" =>
        story_points =
            IF NumericCandidates = {} THEN NoPoints
            ELSE LET first == CHOOSE i \in NumericCandidates :
                                 \A j \in NumericCandidates : i <= j
                 IN  Points(fields[story_point_fields[first]].num)

\* C5 for inputs without a non-numeric value before the first number
StoryPointsWithoutStringCandidates ==
    (\A i \in DOMAIN story_point_fields : fields[story_point_fields[i]].kind # "string")
    => C5_FirstNumericCandidateWins

\* ------------------------------------------------------------------ Flow Metrics Aggregator

\* the most transitions in the list handed to calculate_flow_metrics
MaxFlowTransitions == 3

InProgressStatuses == {"In Progress", "In Development"}

\* a completion test that does not know Resolved
DoneStatusesWithoutResolved == {"Done", "Closed"}

\* ['Done', 'Closed', 'Resolved'] of lines 364 and 372
DoneStatuses == {"Done", "Closed", "Resolved"}

\* a transition_timestamp string: an ISO 8601 timestamp with offset at `at`
\* half-days after some epoch, or text datetime.fromisoformat rejects
At(halfdays) == [wellformed |-> TRUE, at |-> halfdays]

MalformedTimestamp == [wellformed |-> FALSE, at |-> 0]

\* the transitions the list is drawn from
FlowTransitions ==
    [issue_id : {"TEST-1"},
     to_status : {"In Progress", "Done", "To Do"},
     transition_timestamp : {At(0), At(1), At(10), MalformedTimestamp}]
    \cup [issue_id : {"TEST-2"},
          to_status : {"In Progress", "Resolved", "To Do"},
          transition_timestamp : {At(4)}]

\* issue['created']: <<>> is None, <<c>> a timestamp string whose first ten
\* characters are the date c.date
NoCreated == <<>>

Created(date, time) == <<[date |-> date, time |-> time]>>

FlowIssue(id, created, status, points) ==
    [issue_id |-> id, created |-> created, status |-> status, story_points |-> points]

\* the issue lists tried
FlowIssueLists ==
    {<<>>,
     <<FlowIssue("TEST-1", Created(1, 9), "Done", Points(5)),
       FlowIssue("TEST-2", Created(2, 9), "In Progress", NoPoints)>>}

\* (end_date - start_date).days: the whole days of a difference given in
\* half-days, rounded towards minus infinity as timedelta.days is
Days(halfdays) == halfdays \div 2

\* round(x, 2) for x = num / den, in hundredths
RoundHundredths(num, den) == (200 * num + den) \div (2 * den)

\* the counters of a date not seen before, lines 352-357
NewDay ==
    [issues_created |-> 0, issues_completed |-> 0,
     total_story_points |-> 0, completed_story_points |-> 0]

\* `if issue['story_points']`: neither None nor 0
Truthy(points) == points # NoPoints /\ points # Points(0)

RECURSIVE DailyData(_)
\* the first loop of calculate_flow_metrics, lines 344-367
DailyData(issues) ==
    IF issues = <<>> THEN <<>>
    ELSE LET before == DailyData(SubSeq(issues, 1, Len(issues) - 1))
             issue == issues[Len(issues)]
         IN  IF issue.created = NoCreated THEN before
             ELSE LET created_date == issue.created[1].date
                      old == IF created_date \in DOMAIN before
                             THEN before[created_date] ELSE NewDay
                      sp == IF Truthy(issue.story_points) THEN issue.story_points[1] ELSE 0
                      done == issue.status \in DoneStatuses
                      new == [issues_created |-> old.issues_created + 1,
                              issues_completed |->
                                 old.issues_completed + (IF done THEN 1 ELSE 0),
                              total_story_points |-> old.total_story_points + sp,
                              completed_story_points |->
                                 old.completed_story_points + (IF done THEN sp ELSE 0)]
                  IN  (created_date :> new) @@ before

\* one entry per issue with a creation date, repeated dates included
DateOrderPerIssue(issues) ==
    LET dated == SelectSeq(issues, LAMBDA issue : issue.created # NoCreated)
    IN  [i \in DOMAIN dated |-> dated[i].created[1].date]

RECURSIVE DateOrder(_)
\* the keys of daily_data in insertion order (daily_data.items(), line 390)
DateOrder(issues) ==
    IF issues = <<>> THEN <<>>
    ELSE LET before == DateOrder(SubSeq(issues, 1, Len(issues) - 1))
             issue == issues[Len(issues)]
         IN  IF issue.created = NoCreated \/ issue.created[1].date \in Range(before)
             THEN before
             ELSE Append(before, issue.created[1].date)

\* the positions of the transitions of an issue into an in-progress status
StartPositions(trs, issue_id) ==
    {i \in DOMAIN trs : trs[i].issue_id = issue_id /\ trs[i].to_status \in InProgressStatuses}

\* a search that keeps the last match
LastStartTransition(trs, issue_id) ==
    LET starts == StartPositions(trs, issue_id)
    IN  IF starts = {} THEN <<>>
        ELSE <<trs[CHOOSE i \in starts : \A j \in starts : i >= j]>>

\* next((t for t in transitions if ...), None), lines 375-379: <<>> is None
StartTransition(trs, issue_id) ==
    LET starts == StartPositions(trs, issue_id)
    IN  IF starts = {} THEN <<>>
        ELSE <<trs[CHOOSE i \in starts : \A j \in starts : i <= j]>>

RECURSIVE CycleTimes(_, _)
\* the second loop of calculate_flow_metrics over the first n transitions,
\* lines 370-387; a timestamp fromisoformat rejects raises ValueError, which
\* skips the assignment
CycleTimes(trs, n) ==
    IF n = 0 THEN <<>>
    ELSE LET before == CycleTimes(trs, n - 1)
             transition == trs[n]
             start_transition == StartTransition(trs, transition.issue_id)
         IN  IF transition.to_status \notin DoneStatuses \/ start_transition = <<>>
             THEN before
             ELSE LET start_date == start_transition[1].transition_timestamp
                      end_date == transition.transition_timestamp
                  IN  IF ~start_date.wellformed \/ ~end_date.wellformed
                      THEN before
                      ELSE (transition.issue_id :> Days(end_date.at - start_date.at))
                           @@ before

RECURSIVE SumOver(_, _)
SumOver(f, keys) ==
    IF keys = {} THEN 0
    ELSE LET k == CHOOSE x \in keys : TRUE IN f[k] + SumOver(f, keys \ {k})

\* the sum of the cycle times where their mean belongs, in hundredths of a day
TotalCycleTime(cts) == 100 * SumOver(cts, DOMAIN cts)

\* avg_cycle_time of line 391 as stored by line 400, in hundredths of a day
AvgCycleTime(cts) ==
    IF DOMAIN cts = {} THEN 0
    ELSE RoundHundredths(SumOver(cts, DOMAIN cts), Cardinality(DOMAIN cts))

\* the metric records, lines 390-404
MetricRecords(issues, cts) ==
    LET dates == DateOrder(issues)
        data == DailyData(issues)
    IN  [i \in DOMAIN dates |->
            [team_id |-> "TEST",
             date |-> dates[i],
             issues_created |-> data[dates[i]].issues_created,
             issues_completed |-> data[dates[i]].issues_completed,
             total_story_points |-> data[dates[i]].total_story_points,
             completed_story_points |-> data[dates[i]].completed_story_points,
             avg_cycle_time |-> AvgCycleTime(cts),
             throughput |-> data[dates[i]].issues_completed]]

FlowInit ==
    /\ flow_issues \in FlowIssueLists
    /\ flow_transitions \in SeqsUpTo(FlowTransitions, MaxFlowTransitions)
    /\ daily_data = <<>>
    /\ cycle_times = <<>>
    /\ metrics = <<>>
    /\ flow_pc = "input"

\* metrics = self.calculate_flow_metrics(issues, transitions)
CalculateFlowMetrics ==
    /\ flow_pc = "input"
    /\ daily_data' = DailyData(flow_issues)
    /\ cycle_times' = CycleTimes(flow_transitions, Len(flow_transitions))
    /\ metrics' = MetricRecords(flow_issues, cycle_times')
    /\ flow_pc' = "returned"
    /\ UNCHANGED <<flow_issues, flow_transitions>>
    /\ UNCHANGED notFlow

FlowNext == CalculateFlowMetrics

\* the whole state at the start: this component at its entry, the others idle
InitFlowMetrics ==
    FlowInit /\ FetchIdle /\ TransIdle /\ StoryIdle /\ ForecastIdle /\ SinkIdle
    /\ BatchIdle /\ DeriveIdle /\ RunIdle /\ MainIdle /\ TsinkIdle
    /\ AuthorIdle

SpecFlowMetrics == InitFlowMetrics /\ [][FlowNext]_vars

\* ------------------------------------------------------------------ claims on cycle times

FlowIssueIds == {flow_transitions[i].issue_id : i \in DOMAIN flow_transitions}

CompletionPositions(issue_id) ==
    {i \in DOMAIN flow_transitions :
        /\ flow_transitions[i].issue_id = issue_id
        /\ flow_transitions[i].to_status \in DoneStatuses}

FirstOf(S) == CHOOSE i \in S : \A j \in S : i <= j

LastOf(S) == CHOOSE i \in S : \A j \in S : i >= j

\* C7: for every issue with a transition into an in-progress status at S and
\* one into a done status at E, the stored cycle time is the whole-day
\* difference between S and E, S being the issue's first start transition in
\* list order and E its last completion in list order; [to In Progress at day 0,
\* to Done at day 5] gives exactly 5.
C7_CycleTimeFirstStartLastCompletion ==
    flow_pc = "returned" =>
        /\ \A id \in FlowIssueIds :
            LET starts == StartPositions(flow_transitions, id)
                ends == CompletionPositions(id)
            IN  (starts # {} /\ ends # {}) =>
                  LET S == flow_transitions[FirstOf(starts)].transition_timestamp
                      E == flow_transitions[LastOf(ends)].transition_timestamp
                  IN  (S.wellformed /\ E.wellformed) =>
                        /\ id \in DOMAIN cycle_times
                        /\ 2 * cycle_times[id] <= E.at - S.at
                        /\ E.at - S.at < 2 * cycle_times[id] + 2
        /\ flow_transitions =
              << [issue_id |-> "TEST-1", to_status |-> "In Progress",
                  transition_timestamp |-> At(0)],
                 [issue_id |-> "TEST-1", to_status |-> "Done",
                  transition_timestamp |-> At(10)] >>
           => cycle_times = ("TEST-1" :> 5)

\* two starts and then a completion of one issue, another issue's start first
C7_Witness ==
    /\ flow_pc = "returned"
    /\ Len(flow_transitions) = 3
    /\ flow_transitions[1] = [issue_id |-> "TEST-1", to_status |-> "In Progress",
                              transition_timestamp |-> At(1)]
    /\ flow_transitions[2] = [issue_id |-> "TEST-1", to_status |-> "In Progress",
                              transition_timestamp |-> At(0)]
    /\ flow_transitions[3] = [issue_id |-> "TEST-1", to_status |-> "Done",
                              transition_timestamp |-> At(10)]
    /\ cycle_times = ("TEST-1" :> 4)

\* C24: every cycle time calculate_flow_metrics stores is non-negative: the start
\* transition paired with a completion never lies after it, for every order of
\* the transition list and every history of the issue, reopened issues included.
C24_CycleTimesNonNegative ==
    \A id \in DOMAIN cycle_times : cycle_times[id] >= 0

\* the list is in chronological order with readable timestamps, and no issue is
\* completed before its first start
StartedBeforeCompleted ==
    /\ \A i \in DOMAIN flow_transitions : flow_transitions[i].transition_timestamp.wellformed
    /\ \A i, j \in DOMAIN flow_transitions :
          i < j => flow_transitions[i].transition_timestamp.at
                      <= flow_transitions[j].transition_timestamp.at
    /\ \A id \in FlowIssueIds :
          \A s \in StartPositions(flow_transitions, id), e \in CompletionPositions(id) :
              FirstOf(StartPositions(flow_transitions, id)) < e

\* C24 holds for such lists
NonNegativeWhenStartedBeforeCompleted ==
    StartedBeforeCompleted => C24_CycleTimesNonNegative

StartedBeforeCompletedReached ==
    /\ flow_pc = "returned" /\ StartedBeforeCompleted
    /\ Len(flow_transitions) = 3
    /\ "TEST-1" \in DOMAIN cycle_times /\ cycle_times["TEST-1"] = 5

\* the call of C24's failure, a list in chronological order: the issue went to
\* Done on day 0 without an in-progress status and was reopened into In Progress
\* on day 5, which is the start transition paired with the completion
ReopenedIssueHasNegativeCycleTime ==
    /\ flow_pc = "returned"
    /\ flow_transitions =
          << [issue_id |-> "TEST-1", to_status |-> "Done",
              transition_timestamp |-> At(0)],
             [issue_id |-> "TEST-1", to_status |-> "In Progress",
              transition_timestamp |-> At(10)] >>
    /\ cycle_times = ("TEST-1" :> -5)

\* ------------------------------------------------------------------ Forecast Generator

\* the most metric records handed to generate_forecast_items
MaxMetrics == 3

\* range(1, 31), line 428
ForecastDays == 30

\* the metric records tried: throughput is a count, avg_cycle_time a number of
\* hundredths of a day
MetricInputs == [throughput : 0..2, avg_cycle_time : {0, 150, 333}]

\* the days of the year datetime.now() is tried at (the year has 365 days)
BaseDates == {1, 45, 350, 365}

DaysInMonth == <<31, 28, 31, 30, 31, 30, 31, 31, 30, 31, 30, 31>>

RECURSIVE MonthAndDay(_, _)
\* the month and the day of the month of the day-th day of a year, from month m on
MonthAndDay(day, m) ==
    IF day <= DaysInMonth[m] THEN [month |-> m, day |-> day]
    ELSE MonthAndDay(day - DaysInMonth[m], m + 1)

\* base_date + timedelta(days=i): the calendar date n days after 31 December of
\* the year before the current one
CalendarDate(n) ==
    LET year == (n - 1) \div 365
        md == MonthAndDay(((n - 1) % 365) + 1, 1)
    IN  [year |-> 2026 + year, month |-> md.month, day |-> md.day]

\* an id made of the month alone
ForecastIdByMonth(project_key, date) ==
    [project |-> project_key, ymd |-> date.year * 100 + date.month]

\* f"{project_key}_{forecast_date.strftime('%Y%m%d')}", line 432
ForecastId(project_key, date) ==
    [project |-> project_key, ymd |-> date.year * 10000 + date.month * 100 + date.day]

RECURSIVE SumField(_, _)
\* sum(float(m[field]) for m in metrics)
SumField(ms, field) ==
    IF ms = <<>> THEN 0
    ELSE SumField(SubSeq(ms, 1, Len(ms) - 1), field) + ms[Len(ms)][field]

\* round(num / den, 2) in hundredths, num and den >= 0 counted in hundredths and
\* units: the nearest integer to num / den; where num / den lies exactly between
\* two integers the result depends on the binary value of the float quotient,
\* so both neighbours are outcomes
Roundings(num, den) ==
    {q \in {num \div den, (num \div den) + 1} :
        /\ 2 * (q * den - num) <= den
        /\ 2 * (num - q * den) <= den}

\* the forecast records, lines 428-441
ForecastRecords(project_key, base, avg_throughput, avg_cycle_time) ==
    [i \in 1..ForecastDays |->
        LET forecast_date == CalendarDate(base + i)
        IN  [forecast_id |-> ForecastId(project_key, forecast_date),
             team_id |-> project_key,
             forecast_date |-> forecast_date,
             predicted_throughput |-> avg_throughput,
             predicted_cycle_time |-> avg_cycle_time,
             confidence_level |-> 70,
             forecast_type |-> "throughput_based"]]

ForecastInit ==
    /\ metrics_in \in SeqsUpTo(MetricInputs, MaxMetrics)
    /\ base_date \in BaseDates
    /\ forecasts = <<>>
    /\ forecast_pc = "input"

\* forecasts = self.generate_forecast_items(metrics)
GenerateForecastItems ==
    /\ forecast_pc = "input"
    /\ IF metrics_in = <<>>
       THEN forecasts' = <<>>
       ELSE \E avg_throughput \in
                 Roundings(100 * SumField(metrics_in, "throughput"), Len(metrics_in)),
               avg_cycle_time \in
                 Roundings(SumField(metrics_in, "avg_cycle_time"), Len(metrics_in)) :
              forecasts' = ForecastRecords("TEST", base_date, avg_throughput, avg_cycle_time)
    /\ forecast_pc' = "returned"
    /\ UNCHANGED <<metrics_in, base_date>>
    /\ UNCHANGED notForecast

ForecastNext == GenerateForecastItems

\* the whole state at the start: this component at its entry, the others idle
InitForecast ==
    ForecastInit /\ FetchIdle /\ TransIdle /\ StoryIdle /\ FlowIdle /\ SinkIdle
    /\ BatchIdle /\ DeriveIdle /\ RunIdle /\ MainIdle /\ TsinkIdle
    /\ AuthorIdle

SpecForecast == InitForecast /\ [][ForecastNext]_vars

\* ------------------------------------------------------------------ claims on the forecast

\* v hundredths is the mean of the field over the metric records, to the hundredth
IsMeanOf(v, field, scale) ==
    LET n == Len(metrics_in)
        total == scale * SumField(metrics_in, field)
    IN  2 * (v * n - total) <= n /\ 2 * (total - v * n) <= n

\* C8: generate_forecast_items returns an empty list for an empty metric set
\* and otherwise exactly 30 records for days +1..+30 from the current date with
\* pairwise distinct forecast ids, all with the same predicted_throughput (the
\* mean throughput), the same predicted_cycle_time (the mean avg_cycle_time)
\* and confidence 0.70.
C8_ThirtyFlatForecasts ==
    forecast_pc = "returned" =>
        IF metrics_in = <<>> THEN forecasts = <<>>
        ELSE /\ Len(forecasts) = 30
             /\ \A i \in 1..30 :
                  /\ forecasts[i].forecast_date = CalendarDate(base_date + i)
                  /\ forecasts[i].predicted_throughput = forecasts[1].predicted_throughput
                  /\ forecasts[i].predicted_cycle_time = forecasts[1].predicted_cycle_time
                  /\ forecasts[i].confidence_level = 70
             /\ \A i, j \in 1..30 :
                  i # j => forecasts[i].forecast_id # forecasts[j].forecast_id
             /\ IsMeanOf(forecasts[1].predicted_throughput, "throughput", 100)
             /\ IsMeanOf(forecasts[1].predicted_cycle_time, "avg_cycle_time", 1)

\* a forecast made in December from three metric records with different values
C8_Witness ==
    /\ forecast_pc = "returned"
    /\ base_date = 350
    /\ Len(metrics_in) = 3
    /\ metrics_in[1].throughput # metrics_in[2].throughput
    /\ Len(forecasts) = 30
    /\ forecasts[30].forecast_date.year = 2027
    /\ forecasts[1].predicted_throughput = 133

\* the empty case of C8 is reached as well
C8_EmptyWitness == forecast_pc = "returned" /\ metrics_in = <<>> /\ forecasts = <<>>

\* ------------------------------------------------------------------ Sink Writer

\* the most records in one batch
MaxBatch == 2

\* the issue records written: two keys, each with one of two summaries
IssueWrites == [key : {"TEST-1", "TEST-2"}, summary : {"old", "new"}, status : {"Open"}]

\* ON CONFLICT (issue_key) DO NOTHING
InsertOrKeep(rows, data) ==
    IF \E r \in rows : r.issue_key = data.key THEN rows
    ELSE rows \cup {[issue_key |-> data.key, summary |-> data.summary,
                     status |-> data.status]}

\* INSERT INTO issues_jira ... ON CONFLICT (issue_key) DO UPDATE SET ...,
\* lines 179-199: the row of the key takes the new values of the listed columns
InsertOrUpdate(rows, data) ==
    IF \E r \in rows : r.issue_key = data.key
    THEN {IF r.issue_key = data.key
          THEN [r EXCEPT !.summary = data.summary, !.status = data.status]
          ELSE r : r \in rows}
    ELSE rows \cup {[issue_key |-> data.key, summary |-> data.summary,
                     status |-> data.status]}

RECURSIVE InsertAll(_, _)
\* the for loop of insert_issues_into_db, lines 162-199
InsertAll(rows, batch) ==
    IF batch = <<>> THEN rows
    ELSE InsertOrUpdate(InsertAll(rows, SubSeq(batch, 1, Len(batch) - 1)), batch[Len(batch)])

\* batch.put_item(Item=item) on a table whose hash key is issue_id (lines 52-60):
\* the item replaces the stored item with the same key
PutItem(items, data) ==
    {x \in items : x.issue_id # data.key}
    \cup {[issue_id |-> data.key, summary |-> data.summary, status |-> data.status]}

RECURSIVE PutAll(_, _, _)
\* the for loop of save_to_dynamodb, lines 455-461; an item whose conversion or
\* put raises is logged and skipped
PutAll(items, batch, skipped) ==
    IF batch = <<>> THEN items
    ELSE LET before == PutAll(items, SubSeq(batch, 1, Len(batch) - 1), skipped)
         IN  IF Len(batch) \in skipped THEN before ELSE PutItem(before, batch[Len(batch)])

RECURSIVE Remember(_, _, _)
\* what is known of the last stored write of each key after a batch
Remember(known, batch, skipped) ==
    IF batch = <<>> THEN known
    ELSE LET before == Remember(known, SubSeq(batch, 1, Len(batch) - 1), skipped)
             data == batch[Len(batch)]
         IN  IF Len(batch) \in skipped THEN before
             ELSE (data.key :>
                     [summary |-> data.summary,
                      replaced |-> \/ (data.key \in DOMAIN before
                                        /\ before[data.key].summary # data.summary)
                                   \/ (data.key \in DOMAIN before
                                        /\ before[data.key].replaced)])
                  @@ before

\* the stored keys of a batch repeat one key
HasDuplicateKeys(batch, skipped) ==
    \E i, j \in DOMAIN batch \ skipped : i # j /\ batch[i].key = batch[j].key

SinkInit ==
    /\ issues_jira = {}
    /\ jira_issues = {}
    /\ last_write = [postgres |-> <<>>, dynamodb |-> <<>>]
    /\ sink_pc = "open"

\* connector.insert_issues_into_db(issues): one transaction; an exception at
\* any record rolls the whole batch back (lines 204-206)
InsertIssuesIntoDb ==
    /\ sink_pc = "open"
    /\ \E batch \in SeqsUpTo(IssueWrites, MaxBatch), failed_at \in 0..MaxBatch :
        /\ failed_at <= Len(batch)
        /\ IF failed_at = 0
           THEN /\ issues_jira' = InsertAll(issues_jira, batch)
                /\ last_write' = [last_write EXCEPT
                                    !.postgres = Remember(@, batch, {})]
           ELSE UNCHANGED <<issues_jira, last_write>>
    /\ UNCHANGED <<jira_issues, sink_pc>>
    /\ UNCHANGED notSink

\* self.save_to_dynamodb(self.tables['issues'], issues); the batch writer sends
\* the buffered puts in one request when the with block ends, and the service
\* refuses a request that names one key twice (nothing is stored and the error
\* leaves save_to_dynamodb), where a more lenient store applies the puts in order
SaveToDynamodb ==
    /\ sink_pc = "open"
    /\ \E batch \in SeqsUpTo(IssueWrites, MaxBatch),
          skipped \in SUBSET (1..MaxBatch),
          refused \in BOOLEAN :
        /\ batch # <<>>
        /\ skipped \subseteq DOMAIN batch
        /\ refused => HasDuplicateKeys(batch, skipped)
        /\ IF refused
           THEN UNCHANGED <<jira_issues, last_write>>
           ELSE /\ jira_issues' = PutAll(jira_issues, batch, skipped)
                /\ last_write' = [last_write EXCEPT
                                    !.dynamodb = Remember(@, batch, skipped)]
    /\ UNCHANGED <<issues_jira, sink_pc>>
    /\ UNCHANGED notSink

SinkNext == InsertIssuesIntoDb \/ SaveToDynamodb

\* the whole state at the start: this component at its entry, the others idle
InitSink ==
    SinkInit /\ FetchIdle /\ TransIdle /\ StoryIdle /\ FlowIdle /\ ForecastIdle
    /\ BatchIdle /\ DeriveIdle /\ RunIdle /\ MainIdle /\ TsinkIdle
    /\ AuthorIdle

SpecSink == InitSink /\ [][SinkNext]_vars

\* ------------------------------------------------------------------ claims on the sink

IssueKeys == {"TEST-1", "TEST-2"}

\* C9: after any sequence of issue writes each sink holds exactly one record
\* per issue key written, carrying the fields of the last write of that key;
\* the same key written twice with a changed summary leaves one record with the
\* second summary.
C9_OneRecordPerKeyLastWriteWins ==
    sink_pc = "open" =>
        \A k \in IssueKeys :
            /\ LET rows == {r \in issues_jira : r.issue_key = k}
               IN  IF k \in DOMAIN last_write.postgres
                   THEN /\ Cardinality(rows) = 1
                        /\ \A r \in rows : r.summary = last_write.postgres[k].summary
                   ELSE rows = {}
            /\ LET items == {x \in jira_issues : x.issue_id = k}
               IN  IF k \in DOMAIN last_write.dynamodb
                   THEN /\ Cardinality(items) = 1
                        /\ \A x \in items : x.summary = last_write.dynamodb[k].summary
                   ELSE items = {}

\* TEST-1 was written to both sinks again with a changed summary
C9_Witness ==
    /\ sink_pc = "open"
    /\ "TEST-1" \in DOMAIN last_write.postgres
    /\ last_write.postgres["TEST-1"].replaced
    /\ "TEST-1" \in DOMAIN last_write.dynamodb
    /\ last_write.dynamodb["TEST-1"].replaced
    /\ [issue_key |-> "TEST-1", summary |-> "new", status |-> "Open"] \in issues_jira
    /\ [issue_id |-> "TEST-1", summary |-> "new", status |-> "Open"] \in jira_issues

\* ------------------------------------------------------------------ transitions sink

\* the composite key of the table transitions_jira (PRIMARY KEY, connectorv3.py:46)
TransitionKeyOf(t) == <<t.issue_key, t.from_status, t.to_status, t.transition_date>>

BaseTransitionKey ==
    [issue_key |-> "TEST-1", from_status |-> "To Do", to_status |-> "In Progress",
     transition_date |-> "2024-01-01 10:00:00"]

\* the base key and the four keys that differ from it in exactly one component
TransitionKeys ==
    {BaseTransitionKey,
     [BaseTransitionKey EXCEPT !.issue_key = "TEST-2"],
     [BaseTransitionKey EXCEPT !.from_status = "Blocked"],
     [BaseTransitionKey EXCEPT !.to_status = "Done"],
     [BaseTransitionKey EXCEPT !.transition_date = "2024-01-02 10:00:00"]}

TransitionPayloads ==
    {[author |-> "alice", time_in_status_hours |-> NoDuration],
     [author |-> "bob", time_in_status_hours |-> Duration(150)]}

\* the transition records written
TransitionWrites == {k @@ p : k \in TransitionKeys, p \in TransitionPayloads}

\* INSERT INTO transitions_jira ... ON CONFLICT (issue_key, from_status, to_status,
\* transition_date) DO UPDATE SET author, time_in_status_hours, lines 216-231
InsertOrUpdateTransition(rows, t) ==
    IF \E r \in rows : TransitionKeyOf(r) = TransitionKeyOf(t)
    THEN {IF TransitionKeyOf(r) = TransitionKeyOf(t)
          THEN [r EXCEPT !.author = t.author,
                         !.time_in_status_hours = t.time_in_status_hours]
          ELSE r : r \in rows}
    ELSE rows \cup {t}

RECURSIVE InsertAllTransitions(_, _)
\* the for loop of insert_transitions_into_db, lines 215-231
InsertAllTransitions(rows, batch) ==
    IF batch = <<>> THEN rows
    ELSE InsertOrUpdateTransition(
             InsertAllTransitions(rows, SubSeq(batch, 1, Len(batch) - 1)),
             batch[Len(batch)])

\* the item of <prefix>_transitions for one transition
TransitionItem(t) ==
    [issue_id |-> t.issue_key, transition_timestamp |-> t.transition_date,
     from_status |-> t.from_status, to_status |-> t.to_status, author |-> t.author]

\* the key schema of <prefix>_transitions, lines 61-71: issue_id (HASH) and
\* transition_timestamp (RANGE)
TransitionItemKeyOf(x) == <<x.issue_id, x.transition_timestamp>>

\* batch.put_item(Item=item): the item replaces the stored item with the same key
PutTransitionItem(items, t) ==
    {x \in items : TransitionItemKeyOf(x) # TransitionItemKeyOf(TransitionItem(t))}
    \cup {TransitionItem(t)}

RECURSIVE PutAllTransitions(_, _, _)
\* the for loop of save_to_dynamodb, lines 455-461, over transition items
PutAllTransitions(items, batch, skipped) ==
    IF batch = <<>> THEN items
    ELSE LET before == PutAllTransitions(items, SubSeq(batch, 1, Len(batch) - 1), skipped)
         IN  IF Len(batch) \in skipped THEN before
             ELSE PutTransitionItem(before, batch[Len(batch)])

\* ------------------------------------------------------------------ one batch write

\* insert_issues_into_db: the inserts of the batch run in one transaction; an
\* exception at any record reaches the except clause, which rolls back (lines 204-206)
insert_issues_into_db(rows, batch, failed_at) ==
    IF failed_at = 0 THEN InsertAll(rows, batch) ELSE rows

\* insert_transitions_into_db: the same structure, rollback at lines 235-237
insert_transitions_into_db(rows, batch, failed_at) ==
    IF failed_at = 0 THEN InsertAllTransitions(rows, batch) ELSE rows

\* save_to_dynamodb: the try block is inside the for loop, so an item whose
\* conversion or put raises is logged and the loop goes on (lines 455-461)
save_to_dynamodb(items, batch, failed_at) ==
    PutAll(items, batch, {failed_at} \cap DOMAIN batch)

BatchFunctions == {"insert_issues_into_db", "insert_transitions_into_db", "save_to_dynamodb"}

\* the batches of one call: records with pairwise different keys
BatchesOf(function) ==
    IF function = "insert_transitions_into_db"
    THEN {b \in SeqsUpTo(TransitionWrites, MaxBatch) :
            \A i, j \in DOMAIN b : i # j => TransitionKeyOf(b[i]) # TransitionKeyOf(b[j])}
    ELSE {b \in SeqsUpTo(IssueWrites, MaxBatch) :
            \A i, j \in DOMAIN b : i # j => b[i].key # b[j].key}

\* a call with a batch of which at most one record fails to be written
BatchInit ==
    /\ bw_function \in BatchFunctions
    /\ bw_batch \in BatchesOf(bw_function)
    /\ bw_failing \in 0..Len(bw_batch)
    /\ bw_stored = {}
    /\ bw_pc = "call"

\* the whole call of the batch write function
WriteBatch ==
    /\ bw_pc = "call"
    /\ bw_stored' =
         CASE bw_function = "insert_issues_into_db" ->
                insert_issues_into_db(bw_stored, bw_batch, bw_failing)
           [] bw_function = "insert_transitions_into_db" ->
                insert_transitions_into_db(bw_stored, bw_batch, bw_failing)
           [] OTHER -> save_to_dynamodb(bw_stored, bw_batch, bw_failing)
    /\ bw_pc' = "returned"
    /\ UNCHANGED <<bw_function, bw_batch, bw_failing>>
    /\ UNCHANGED notBatch

BatchNext == WriteBatch

InitBatch ==
    BatchInit /\ FetchIdle /\ TransIdle /\ StoryIdle /\ FlowIdle /\ ForecastIdle
    /\ SinkIdle /\ DeriveIdle /\ RunIdle /\ MainIdle /\ TsinkIdle
    /\ AuthorIdle

SpecBatch == InitBatch /\ [][BatchNext]_vars

\* ------------------------------------------------------------------ claims on one batch write

\* the record of the batch is in the sink after the call
StoredInSink(function, stored, w) ==
    CASE function = "insert_issues_into_db" ->
           [issue_key |-> w.key, summary |-> w.summary, status |-> w.status] \in stored
      [] function = "insert_transitions_into_db" -> w \in stored
      [] OTHER ->
           [issue_id |-> w.key, summary |-> w.summary, status |-> w.status] \in stored

\* C12: a failure writing one record of a batch does not abort the batch: after
\* save_to_dynamodb, insert_issues_into_db or insert_transitions_into_db every
\* other record of the batch, before and after the failing one, is in the sink.
C12_FailedRecordIsSkipped ==
    (bw_pc = "returned" /\ bw_failing # 0) =>
        \A i \in DOMAIN bw_batch \ {bw_failing} :
            StoredInSink(bw_function, bw_stored, bw_batch[i])

\* the part of C12 that is about save_to_dynamodb
SaveToDynamodbSkipsFailedRecord ==
    bw_function = "save_to_dynamodb" => C12_FailedRecordIsSkipped

\* save_to_dynamodb stored the first record of a batch whose second record failed
SaveToDynamodbSkippedOne ==
    /\ bw_function = "save_to_dynamodb" /\ bw_pc = "returned"
    /\ Len(bw_batch) = 2 /\ bw_failing = 2 /\ Cardinality(bw_stored) = 1

\* ------------------------------------------------------------------ transition derivation over a list of issues

\* the most issues in one call
MaxDeriveIssues == 3

\* the history lists of the changelogs tried: none, one status change, and a
\* second entry with an item of another field before its status change
DeriveHistoryLists ==
    {<<>>,
     <<[created |-> [local |-> 60, offset |-> 0], author |-> "alice",
        items |-> <<StatusItem("To Do", "In Progress")>>]>>,
     <<[created |-> [local |-> 60, offset |-> 0], author |-> "alice",
        items |-> <<StatusItem("To Do", "In Progress")>>],
       [created |-> [local |-> 120, offset |-> 0], author |-> "alice",
        items |-> <<OtherItem, StatusItem("In Progress", "Done")>>]>>}

\* what the upstream holds for one issue: whether its retrieval succeeds
\* (extract_jira_transitions asks per issue), and its changelog: absent, null,
\* or present with a history list
UpstreamChangelogs(mode) ==
    LET retrievals == IF mode = "extract_jira_transitions" THEN {"ok", "failed"} ELSE {"ok"}
    IN  [retrieval : retrievals, changelog : {"absent", "null"}, histories : {<<>>}]
        \cup [retrieval : retrievals, changelog : {"present"},
              histories : DeriveHistoryLists]

\* the issues argument: keys TEST-1, TEST-2, ... in order
DeriveInputs(mode) ==
    UNION {{[i \in 1..n |-> [key |-> i] @@ u[i]] :
              u \in [1..n -> UpstreamChangelogs(mode)]} : n \in 0..MaxDeriveIssues}

\* a loop that stops at the issue instead of going on
Break(i, n) == n + 1

\* continue: the for loop goes on with the next issue
Continue(i, n) == i + 1

\* a retrieval that hands out the changelog although the request failed
get_issue_changelog_regardless(issue) ==
    [changelog |-> issue.changelog, histories |-> issue.histories]

\* get_issue_changelog: the except clause of lines 249-251 returns {} for a
\* failed request
get_issue_changelog(issue) ==
    IF issue.retrieval = "failed"
    THEN [changelog |-> "absent", histories |-> <<>>]
    ELSE [changelog |-> issue.changelog, histories |-> issue.histories]

\* the first ten characters of the timestamp string: the calendar day of the
\* wall-clock time (given in minutes)
DatePart(created) == created.local \div 1440

\* the transition records of one history entry, lines 269-285
JiraTransitionsOfHistory(key, history) ==
    LET items == SelectSeq(history.items, LAMBDA item : item.field = "status")
    IN  [i \in DOMAIN items |->
            [issue_id |-> key,
             transition_timestamp |-> history.created,
             from_status |-> items[i].fromString,
             to_status |-> items[i].toString,
             author |-> history.author,
             transition_date |-> DatePart(history.created)]]

RECURSIVE JiraTransitionsOf(_, _)
\* the for loop over the histories of one issue, lines 268-285
JiraTransitionsOf(key, histories) ==
    IF histories = <<>> THEN <<>>
    ELSE JiraTransitionsOf(key, SubSeq(histories, 1, Len(histories) - 1))
         \o JiraTransitionsOfHistory(key, histories[Len(histories)])

DeriveInit ==
    /\ derive_mode \in {"extract_transitions", "extract_jira_transitions"}
    /\ derive_issues \in DeriveInputs(derive_mode)
    /\ derive_i = 1
    /\ derive_requested = <<>>
    /\ derive_transitions = <<>>
    /\ derive_pc = "loop"

\* one iteration of the for loop of JiraETLConnector.extract_transitions, or
\* its end
ExtractTransitionsIteration ==
    /\ derive_pc = "loop"
    /\ derive_mode = "extract_transitions"
    /\ UNCHANGED <<derive_mode, derive_issues>>
    /\ UNCHANGED notDerive
    /\ LET n == Len(derive_issues)
       IN  IF derive_i > n
           THEN /\ derive_pc' = "returned"
                /\ UNCHANGED <<derive_i, derive_requested, derive_transitions>>
           ELSE LET issue == derive_issues[derive_i]
                IN  /\ derive_requested' = Append(derive_requested, issue.key)
                    /\ derive_pc' = "loop"
                    /\ IF issue.changelog # "present"
                       THEN /\ derive_i' = Continue(derive_i, n)
                            /\ UNCHANGED derive_transitions
                       ELSE /\ derive_i' = derive_i + 1
                            /\ derive_transitions' =
                                 derive_transitions
                                 \o TransitionsOfIssue(
                                        IssueWithChangelog(issue.key, issue.histories))

\* one iteration of the for loop of JiraToDynamoDB.extract_jira_transitions, or
\* its end; changelog.get() on a null changelog raises AttributeError inside
\* the try block and the except clause of lines 287-289 continues
ExtractJiraTransitionsIteration ==
    /\ derive_pc = "loop"
    /\ derive_mode = "extract_jira_transitions"
    /\ UNCHANGED <<derive_mode, derive_issues>>
    /\ UNCHANGED notDerive
    /\ LET n == Len(derive_issues)
       IN  IF derive_i > n
           THEN /\ derive_pc' = "returned"
                /\ UNCHANGED <<derive_i, derive_requested, derive_transitions>>
           ELSE LET issue_data == derive_issues[derive_i]
                    issue_with_changelog == get_issue_changelog(issue_data)
                IN  /\ derive_requested' = Append(derive_requested, issue_data.key)
                    /\ derive_pc' = "loop"
                    /\ IF issue_with_changelog.changelog = "null"
                       THEN /\ derive_i' = Continue(derive_i, n)
                            /\ UNCHANGED derive_transitions
                       ELSE /\ derive_i' = derive_i + 1
                            /\ derive_transitions' =
                                 derive_transitions
                                 \o JiraTransitionsOf(issue_data.key,
                                                      issue_with_changelog.histories)

DeriveNext == ExtractTransitionsIteration \/ ExtractJiraTransitionsIteration

InitDerive ==
    DeriveInit /\ FetchIdle /\ TransIdle /\ StoryIdle /\ FlowIdle /\ ForecastIdle
    /\ SinkIdle /\ BatchIdle /\ RunIdle /\ MainIdle /\ TsinkIdle
    /\ AuthorIdle

SpecDerive == InitDerive /\ [][DeriveNext]_vars

\* ------------------------------------------------------------------ claims on the derivation over a list

RECURSIVE Flatten(_)
Flatten(ss) ==
    IF ss = <<>> THEN <<>> ELSE Flatten(SubSeq(ss, 1, Len(ss) - 1)) \o ss[Len(ss)]

\* C13: in extract_jira_transitions a failed changelog retrieval of one issue
\* raises nothing to the caller, every issue of the input is still processed in
\* order, and the returned list holds exactly the status transitions of the
\* issues whose retrieval succeeded.
C13_FailedRetrievalIsSkipped ==
    (derive_mode = "extract_jira_transitions" /\ derive_pc = "returned") =>
        /\ derive_requested = [i \in DOMAIN derive_issues |-> derive_issues[i].key]
        /\ derive_transitions =
             Flatten([i \in DOMAIN derive_issues |->
                        IF derive_issues[i].retrieval = "failed" THEN <<>>
                        ELSE JiraTransitionsOf(derive_issues[i].key,
                                               derive_issues[i].histories)])

\* three issues of which the second, which has status changes upstream, could
\* not be retrieved; the first and the third gave their transitions
C13_Witness ==
    /\ derive_mode = "extract_jira_transitions" /\ derive_pc = "returned"
    /\ Len(derive_issues) = 3
    /\ derive_issues[2].retrieval = "failed" /\ derive_issues[2].histories # <<>>
    /\ \E i, j \in DOMAIN derive_transitions :
          derive_transitions[i].issue_id = 1 /\ derive_transitions[j].issue_id = 3

\* the issue has no changelog, or one whose history list is empty
WithoutHistory(issue) == issue.changelog # "present" \/ issue.histories = <<>>

\* what a call with this issue alone returns
DerivedAlone(mode, issue) ==
    IF mode = "extract_transitions"
    THEN extract_transitions(<<IssueWithChangelog(issue.key, issue.histories)>>)
    ELSE JiraTransitionsOf(issue.key, issue.histories)

\* C14: an issue with no changelog or with an empty history list contributes no
\* transition and no error in both derivation modes, and the transitions of
\* the other issues of the call are what they are without it.
C14_NoChangelogNoTransitions ==
    derive_pc = "returned" =>
        /\ Len(derive_requested) = Len(derive_issues)
        /\ derive_transitions =
             Flatten([i \in DOMAIN derive_issues |->
                        IF \/ WithoutHistory(derive_issues[i])
                           \/ derive_issues[i].retrieval = "failed"
                        THEN <<>>
                        ELSE DerivedAlone(derive_mode, derive_issues[i])])

\* extract_transitions over three issues of which the second has no changelog
C14_Witness ==
    /\ derive_mode = "extract_transitions" /\ derive_pc = "returned"
    /\ Len(derive_issues) = 3
    /\ derive_issues[2].changelog = "absent"
    /\ \E i, j \in DOMAIN derive_transitions :
          derive_transitions[i].issue_key = 1 /\ derive_transitions[j].issue_key = 3

\* the same for extract_jira_transitions and an empty history list
JiraEmptyHistoryListReached ==
    /\ derive_mode = "extract_jira_transitions" /\ derive_pc = "returned"
    /\ Len(derive_issues) = 3
    /\ derive_issues[2].changelog = "present" /\ derive_issues[2].histories = <<>>
    /\ \E i, j \in DOMAIN derive_transitions :
          derive_transitions[i].issue_id = 1 /\ derive_transitions[j].issue_id = 3

\* ------------------------------------------------------------------ one full run (run_extraction)

\* the most issues the upstream holds in a run
MaxRunIssues == 2

\* the tables in the order of table_schemas, lines 51-92
Tables == <<"issues", "transitions", "metrics", "forecast">>

\* an order that keeps every write for the end
RunOrderWritesLast ==
    <<"create_tables_if_not_exist", "extract_jira_issues", "extract_jira_transitions",
      "calculate_flow_metrics", "generate_forecast_items",
      "save_issues", "save_transitions", "save_metrics", "save_forecast">>

\* the calls of run_extraction in the order of lines 482-502
RunOrder ==
    <<"create_tables_if_not_exist", "extract_jira_issues", "save_issues",
      "extract_jira_transitions", "save_transitions",
      "calculate_flow_metrics", "save_metrics",
      "generate_forecast_items", "save_forecast">>

\* the call that is next
RunStep == IF run_k \in DOMAIN RunOrder THEN RunOrder[run_k] ELSE "none"

\* one finished call and the number of records it wrote to the sink
Finished(step, records) == [step |-> step, records |-> records]

\* the call returned: the next one follows, and after the last one
\* run_extraction returns (line 504)
CallReturns(step, records) ==
    /\ run_trace' = Append(run_trace, Finished(step, records))
    /\ run_k' = run_k + 1
    /\ run_result' = IF run_k = Len(RunOrder) THEN "returned" ELSE "running"
    /\ UNCHANGED run_raised_in

\* the call raised: the except clause of lines 506-508 logs and re-raises
CallRaises(step) ==
    /\ run_result' = "raised"
    /\ run_raised_in' = step
    /\ UNCHANGED <<run_k, run_trace>>

\* the number of records of a table that the calls so far have produced
Produced(table) ==
    LET made(step) == \E i \in DOMAIN run_trace : run_trace[i].step = step
    IN  CASE table = "issues" -> run_issues
          [] table = "transitions" ->
               IF made("extract_jira_transitions") THEN run_issues ELSE 0
          [] table = "metrics" ->
               IF made("calculate_flow_metrics") THEN 1 ELSE 0
          [] OTHER ->
               IF made("generate_forecast_items") /\ made("calculate_flow_metrics")
               THEN ForecastDays ELSE 0

RunInit ==
    /\ run_k = 0
    /\ run_result = "idle"
    /\ run_trace = <<>>
    /\ run_tables \in SUBSET Range(Tables)
    /\ run_upstream \in 0..MaxRunIssues
    /\ run_issues = 0
    /\ run_search_requests = 0
    /\ run_raised_in = "none"

\* extractor.run_extraction(days_back=356) is entered
StartRun ==
    /\ run_result = "idle"
    /\ run_result' = "running"
    /\ run_k' = 1
    /\ UNCHANGED <<run_trace, run_tables, run_upstream, run_issues,
                   run_search_requests, run_raised_in>>
    /\ UNCHANGED notRun

\* self.create_tables_if_not_exist(): the tables are created in order; a table
\* that exists answers ResourceInUseException, which is logged; any other
\* ClientError is re-raised (lines 102-107)
CreateTablesIfNotExist ==
    /\ run_result = "running" /\ RunStep = "create_tables_if_not_exist"
    /\ \E failing \in 0..Len(Tables) :
         IF failing = 0
         THEN /\ run_tables' = Range(Tables)
              /\ CallReturns("create_tables_if_not_exist", 0)
         ELSE /\ run_tables' = run_tables \cup {Tables[i] : i \in 1..(failing - 1)}
              /\ CallRaises("create_tables_if_not_exist")
    /\ UNCHANGED <<run_upstream, run_issues, run_search_requests>>
    /\ UNCHANGED notRun

\* issues = self.extract_jira_issues(days_back); if not issues: return.  The
\* upstream holds less than one page; when the search fails on both variants
\* the loop returns what it has accumulated, the empty list
ExtractJiraIssues ==
    /\ run_result = "running" /\ RunStep = "extract_jira_issues"
    /\ \E search \in {"ok", "error"} :
         /\ run_search_requests' = run_search_requests + 1
         /\ run_issues' = IF search = "ok" THEN run_upstream
                          ELSE Len(AfterFailedRequest(<<>>))
         /\ IF run_issues' = 0
            THEN /\ run_trace' = Append(run_trace, Finished("extract_jira_issues", 0))
                 /\ run_result' = "returned"
                 /\ UNCHANGED <<run_k, run_raised_in>>
            ELSE CallReturns("extract_jira_issues", 0)
    /\ UNCHANGED <<run_tables, run_upstream>>
    /\ UNCHANGED notRun

\* self.save_to_dynamodb(self.tables[...], ...): nothing is written for an empty
\* list; an error of the batch request at the end of the with block is not
\* caught in save_to_dynamodb
RunSaveToDynamodb ==
    /\ run_result = "running"
    /\ RunStep \in {"save_issues", "save_transitions", "save_metrics", "save_forecast"}
    /\ \E outcome \in {"ok", "error"} :
         LET table == CASE RunStep = "save_issues" -> "issues"
                        [] RunStep = "save_transitions" -> "transitions"
                        [] RunStep = "save_metrics" -> "metrics"
                        [] OTHER -> "forecast"
         IN  IF outcome = "ok" \/ Produced(table) = 0
             THEN CallReturns(RunStep, Produced(table))
             ELSE CallRaises(RunStep)
    /\ UNCHANGED <<run_tables, run_upstream, run_issues, run_search_requests>>
    /\ UNCHANGED notRun

\* transitions = self.extract_jira_transitions(issues): every exception is
\* caught inside
RunExtractJiraTransitions ==
    /\ run_result = "running" /\ RunStep = "extract_jira_transitions"
    /\ CallReturns("extract_jira_transitions", 0)
    /\ UNCHANGED <<run_tables, run_upstream, run_issues, run_search_requests>>
    /\ UNCHANGED notRun

\* metrics = self.calculate_flow_metrics(issues, transitions): only ValueError
\* is caught inside (line 386)
RunCalculateFlowMetrics ==
    /\ run_result = "running" /\ RunStep = "calculate_flow_metrics"
    /\ \E outcome \in {"ok", "error"} :
         IF outcome = "ok" THEN CallReturns("calculate_flow_metrics", 0)
         ELSE CallRaises("calculate_flow_metrics")
    /\ UNCHANGED <<run_tables, run_upstream, run_issues, run_search_requests>>
    /\ UNCHANGED notRun

\* forecasts = self.generate_forecast_items(metrics)
RunGenerateForecastItems ==
    /\ run_result = "running" /\ RunStep = "generate_forecast_items"
    /\ CallReturns("generate_forecast_items", 0)
    /\ UNCHANGED <<run_tables, run_upstream, run_issues, run_search_requests>>
    /\ UNCHANGED notRun

RunNext ==
    \/ StartRun
    \/ CreateTablesIfNotExist
    \/ ExtractJiraIssues
    \/ RunSaveToDynamodb
    \/ RunExtractJiraTransitions
    \/ RunCalculateFlowMetrics
    \/ RunGenerateForecastItems

InitRun ==
    RunInit /\ FetchIdle /\ TransIdle /\ StoryIdle /\ FlowIdle /\ ForecastIdle
    /\ SinkIdle /\ BatchIdle /\ DeriveIdle /\ MainIdle /\ TsinkIdle
    /\ AuthorIdle

SpecRun == InitRun /\ [][RunNext]_vars

\* ------------------------------------------------------------------ claims on one full run

\* the stage of the run's state machine that a call belongs to
StageOf(step) ==
    CASE step = "create_tables_if_not_exist" -> "creating_sink_schema"
      [] step = "extract_jira_issues" -> "fetching_issues"
      [] step = "extract_jira_transitions" -> "deriving_transitions"
      [] step = "calculate_flow_metrics" -> "aggregating_metrics"
      [] step = "generate_forecast_items" -> "generating_forecast"
      [] OTHER -> "writing_outputs"

StageOrder ==
    <<"creating_sink_schema", "fetching_issues", "deriving_transitions",
      "aggregating_metrics", "generating_forecast", "writing_outputs">>

StageRank(stage) == CHOOSE r \in DOMAIN StageOrder : StageOrder[r] = stage

\* C15 as stated: the calls of a run go through the stages creating_sink_schema,
\* fetching_issues, deriving_transitions, aggregating_metrics,
\* generating_forecast, writing_outputs in that order, and no record is written
\* to the sink before forecast generation has finished.
C15_StagesInOrderWritesLast ==
    /\ \A i, j \in DOMAIN run_trace :
          i < j => StageRank(StageOf(run_trace[i].step))
                     <= StageRank(StageOf(run_trace[j].step))
    /\ \A i \in DOMAIN run_trace :
          run_trace[i].records > 0
            => \E j \in 1..(i - 1) : run_trace[j].step = "generate_forecast_items"

\* the calls that compute, in the order of the stages
ComputeOrder ==
    <<"create_tables_if_not_exist", "extract_jira_issues", "extract_jira_transitions",
      "calculate_flow_metrics", "generate_forecast_items">>

\* the write that stores the output of a stage
WriteOf(step) ==
    CASE step = "extract_jira_issues" -> "save_issues"
      [] step = "extract_jira_transitions" -> "save_transitions"
      [] step = "calculate_flow_metrics" -> "save_metrics"
      [] step = "generate_forecast_items" -> "save_forecast"
      [] OTHER -> "none"

\* C15 as amended: the computing stages of a run follow one another in the order
\* creating_sink_schema, fetching_issues, deriving_transitions,
\* aggregating_metrics, generating_forecast, none starting before the previous
\* one has finished; the output of each stage is written to the sink right
\* after that stage and before the next one starts, and the run is done only
\* after the last write.
C15_StagesInOrderEachWrittenAtOnce ==
    LET computed == SelectSeq(run_trace, LAMBDA e : StageOf(e.step) # "writing_outputs")
    IN  /\ Len(computed) <= Len(ComputeOrder)
        /\ \A i \in DOMAIN computed : computed[i].step = ComputeOrder[i]
        /\ \A i \in DOMAIN run_trace :
              /\ StageOf(run_trace[i].step) = "writing_outputs"
                   => (i > 1 /\ WriteOf(run_trace[i - 1].step) = run_trace[i].step)
              /\ (WriteOf(run_trace[i].step) # "none" /\ i < Len(run_trace))
                   => run_trace[i + 1].step = WriteOf(run_trace[i].step)
              /\ run_trace[i].records > 0 => StageOf(run_trace[i].step) = "writing_outputs"
        /\ (run_result = "returned" /\ run_issues > 0)
              => Len(run_trace) = Len(ComputeOrder) + 4

\* a completed run whose issues were written before its transitions were derived
C15_Witness ==
    /\ run_result = "returned" /\ Len(run_trace) = 9
    /\ run_trace[3] = Finished("save_issues", MaxRunIssues)
    /\ run_trace[4].step = "extract_jira_transitions"
    /\ run_trace[9] = Finished("save_forecast", ForecastDays)

\* C16: the run ends failed, with the error raised to the caller and no later
\* stage run, when schema creation fails for another reason than 'already
\* exists' (then no search request is issued) and when zero issues are fetched,
\* the failure of the initial search call included; a run never returns
\* normally without having completed all stages.
C16_UnrecoverableErrorsFailTheRun ==
    /\ run_raised_in = "create_tables_if_not_exist"
         => (run_result = "raised" /\ run_search_requests = 0 /\ run_trace = <<>>)
    /\ ( /\ \E i \in DOMAIN run_trace : run_trace[i].step = "extract_jira_issues"
         /\ run_issues = 0 )
         => run_result = "raised"
    /\ run_result = "returned" => Len(run_trace) = Len(RunOrder)

\* the part of C16 that is about schema creation
SchemaFailureAbortsBeforeSearch ==
    /\ run_raised_in = "create_tables_if_not_exist"
         => (run_result = "raised" /\ run_search_requests = 0 /\ run_trace = <<>>)
    /\ (run_result # "raised" /\ run_k > 1) => run_tables = Range(Tables)

\* the initial search call failed although the upstream holds issues, and
\* run_extraction returned normally after its second call
ReturnedEarlyAfterFailedSearch ==
    /\ run_result = "returned" /\ run_upstream > 0 /\ run_issues = 0
    /\ Len(run_trace) = 2 /\ run_raised_in = "none"

\* ------------------------------------------------------------------ one run of the relational connector (main)

\* the most projects the upstream lists
MaxProjects == 3

\* the calls of main in the order of lines 346-424 (the two insert calls of
\* lines 417 and 420 are commented out in the source)
MainOrder ==
    <<"JiraETLConnector", "connect", "connection_check", "get_projects", "get_issues",
      "extract_transitions", "checking_fields_in_changelog", "close">>

MainStep == IF main_k \in DOMAIN MainOrder THEN MainOrder[main_k] ELSE "none"

\* the call returned and main goes on with the next one
MainCallReturns ==
    /\ main_k' = main_k + 1
    /\ main_result' = IF main_k = Len(MainOrder) THEN "returned" ELSE "running"
    /\ UNCHANGED main_raised_in

\* the call raised: main has no try block, the exception leaves it
MainCallRaises(step) ==
    /\ main_result' = "raised"
    /\ main_raised_in' = step
    /\ UNCHANGED main_k

MainInit ==
    /\ main_k = 0
    /\ main_result = "idle"
    /\ db = "none"
    /\ jira_connection = "unset"
    /\ main_projects = 0
    /\ main_issues = 0
    /\ main_transitions = 0
    /\ main_raised_in = "none"

\* main is entered; without JIRA_URL, JIRA_EMAIL or JIRA_API_TOKEN it prints a
\* message and returns before anything is opened (lines 331-333)
StartMain ==
    /\ main_result = "idle"
    /\ \E configured \in BOOLEAN :
         IF configured THEN main_result' = "running" /\ main_k' = 1
         ELSE main_result' = "returned" /\ main_k' = 0
    /\ UNCHANGED <<db, jira_connection, main_projects, main_issues, main_transitions,
                   main_raised_in>>
    /\ UNCHANGED notMain

\* connector = JiraETLConnector(...): __init__ opens the database connection
\* with psycopg2.connect (line 14), which raises when the database is unreachable
MainConstruct ==
    /\ main_result = "running" /\ MainStep = "JiraETLConnector"
    /\ \E outcome \in {"ok", "error"} :
         IF outcome = "ok" THEN db' = "open" /\ MainCallReturns
         ELSE UNCHANGED db /\ MainCallRaises("JiraETLConnector")
    /\ UNCHANGED <<jira_connection, main_projects, main_issues, main_transitions>>
    /\ UNCHANGED notMain

\* jira_connection = connector.connect(): a failure is caught and None returned
MainConnect ==
    /\ main_result = "running" /\ MainStep = "connect"
    /\ jira_connection' \in {"connected", "None"}
    /\ MainCallReturns
    /\ UNCHANGED <<db, main_projects, main_issues, main_transitions>>
    /\ UNCHANGED notMain

\* connection_check(jira_connection): server_info() is called outside any try block
MainConnectionCheck ==
    /\ main_result = "running" /\ MainStep = "connection_check"
    /\ \E outcome \in {"ok", "error"} :
         IF outcome = "ok" \/ jira_connection = "None" THEN MainCallReturns
         ELSE MainCallRaises("connection_check")
    /\ UNCHANGED <<db, jira_connection, main_projects, main_issues, main_transitions>>
    /\ UNCHANGED notMain

\* projects = connector.get_projects(): a failure is caught and [] returned;
\* without a connection self.jira is None and the call fails
MainGetProjects ==
    /\ main_result = "running" /\ MainStep = "get_projects"
    /\ main_projects' \in IF jira_connection = "None" THEN {0} ELSE 0..MaxProjects
    /\ MainCallReturns
    /\ UNCHANGED <<db, jira_connection, main_issues, main_transitions>>
    /\ UNCHANGED notMain

\* issues = connector.get_issues(jql_query, max_results=10): a failure is caught
\* and what was accumulated is returned
MainGetIssues ==
    /\ main_result = "running" /\ MainStep = "get_issues"
    /\ main_issues' \in IF jira_connection = "None" THEN {0} ELSE 0..MaxRunIssues
    /\ MainCallReturns
    /\ UNCHANGED <<db, jira_connection, main_projects, main_transitions>>
    /\ UNCHANGED notMain

\* transitions = connector.extract_transitions(issues), here with at most one
\* status change per issue: strptime raises ValueError on a timestamp of another
\* format, and nothing catches it
MainExtractTransitions ==
    /\ main_result = "running" /\ MainStep = "extract_transitions"
    /\ \E outcome \in {"ok", "error"} :
         IF outcome = "ok" \/ main_issues = 0
         THEN /\ main_transitions' \in 0..main_issues
              /\ MainCallReturns
         ELSE /\ UNCHANGED main_transitions
              /\ MainCallRaises("extract_transitions")
    /\ UNCHANGED <<db, jira_connection, main_projects, main_issues>>
    /\ UNCHANGED notMain

\* checking_fields_in_changelog(issues)
MainCheckingFields ==
    /\ main_result = "running" /\ MainStep = "checking_fields_in_changelog"
    /\ MainCallReturns
    /\ UNCHANGED <<db, jira_connection, main_projects, main_issues, main_transitions>>
    /\ UNCHANGED notMain

\* connector.db.close(), lines 423-425
MainClose ==
    /\ main_result = "running" /\ MainStep = "close"
    /\ db' = "closed"
    /\ MainCallReturns
    /\ UNCHANGED <<jira_connection, main_projects, main_issues, main_transitions>>
    /\ UNCHANGED notMain

MainNext ==
    \/ StartMain
    \/ MainConstruct
    \/ MainConnect
    \/ MainConnectionCheck
    \/ MainGetProjects
    \/ MainGetIssues
    \/ MainExtractTransitions
    \/ MainCheckingFields
    \/ MainClose

InitMain ==
    MainInit /\ FetchIdle /\ TransIdle /\ StoryIdle /\ FlowIdle /\ ForecastIdle
    /\ SinkIdle /\ BatchIdle /\ DeriveIdle /\ RunIdle /\ TsinkIdle
    /\ AuthorIdle

SpecMain == InitMain /\ [][MainNext]_vars

\* ------------------------------------------------------------------ claims on main

\* C17: on every run, whether it completes or fails at any stage, the
\* destination connection opened for the run is released before the run ends:
\* no execution ends with the connection still open.
C17_ConnectionReleasedOnEveryRun ==
    main_result \in {"returned", "raised"} => db # "open"

\* every run that ends by returning has released the connection it opened, the
\* runs whose connect, project listing or issue fetch failed included
ReleasedWhenMainReturns ==
    main_result = "returned" => db # "open"

\* a run without Jira connection, projects and issues that closed the connection
ReleasedAfterCaughtFailures ==
    /\ main_result = "returned" /\ db = "closed" /\ jira_connection = "None"
    /\ main_projects = 0 /\ main_issues = 0

\* a run that ended in extract_transitions with the connection open
EndedWithConnectionOpen ==
    /\ main_result = "raised" /\ main_raised_in = "extract_transitions" /\ db = "open"

\* ------------------------------------------------------------------ writes to the transitions sink

\* the most transitions in one batch
MaxTransitionBatch == 2

RECURSIVE RememberTransitions(_, _)
\* what is known of the last write of each composite key after a stored batch
RememberTransitions(known, batch) ==
    IF batch = <<>> THEN known
    ELSE LET t == batch[Len(batch)]
         IN  (TransitionKeyOf(t) :>
                [author |-> t.author, time_in_status_hours |-> t.time_in_status_hours])
             @@ RememberTransitions(known, SubSeq(batch, 1, Len(batch) - 1))

\* two items of the batch have the same key of <prefix>_transitions
HasDuplicateItemKeys(batch) ==
    \E i, j \in DOMAIN batch :
        /\ i # j
        /\ TransitionItemKeyOf(TransitionItem(batch[i]))
             = TransitionItemKeyOf(TransitionItem(batch[j]))

TsinkInit ==
    /\ tsink \in {"postgres", "dynamodb"}
    /\ transitions_jira = {}
    /\ jira_transitions = {}
    /\ transition_writes = <<>>
    /\ tsink_pc = "open"

\* connector.insert_transitions_into_db(transitions)
InsertTransitionsIntoDb ==
    /\ tsink_pc = "open" /\ tsink = "postgres"
    /\ \E batch \in SeqsUpTo(TransitionWrites, MaxTransitionBatch),
          failed_at \in 0..MaxTransitionBatch :
        /\ failed_at <= Len(batch)
        /\ transitions_jira' = insert_transitions_into_db(transitions_jira, batch, failed_at)
        /\ transition_writes' =
             IF failed_at = 0 THEN RememberTransitions(transition_writes, batch)
             ELSE transition_writes
    /\ UNCHANGED <<tsink, jira_transitions, tsink_pc>>
    /\ UNCHANGED notTsink

\* self.save_to_dynamodb(self.tables['transitions'], transitions): the service
\* refuses a batch request that names one item key twice, where a more lenient
\* store applies the puts in order
SaveTransitionsToDynamodb ==
    /\ tsink_pc = "open" /\ tsink = "dynamodb"
    /\ \E batch \in SeqsUpTo(TransitionWrites, MaxTransitionBatch), refused \in BOOLEAN :
        /\ batch # <<>>
        /\ refused => HasDuplicateItemKeys(batch)
        /\ IF refused
           THEN UNCHANGED <<jira_transitions, transition_writes>>
           ELSE /\ jira_transitions' = PutAllTransitions(jira_transitions, batch, {})
                /\ transition_writes' = RememberTransitions(transition_writes, batch)
    /\ UNCHANGED <<tsink, transitions_jira, tsink_pc>>
    /\ UNCHANGED notTsink

TsinkNext == InsertTransitionsIntoDb \/ SaveTransitionsToDynamodb

InitTsink ==
    TsinkInit /\ FetchIdle /\ TransIdle /\ StoryIdle /\ FlowIdle /\ ForecastIdle
    /\ SinkIdle /\ BatchIdle /\ DeriveIdle /\ RunIdle /\ MainIdle
    /\ AuthorIdle

SpecTsink == InitTsink /\ [][TsinkNext]_vars

\* ------------------------------------------------------------------ claims on the transitions sink

\* the stored record of a composite key carries the author (and, in the
\* relational sink, the duration) of the last write of that key
StoredAsLastWritten(k) ==
    IF tsink = "postgres"
    THEN \E r \in transitions_jira :
            /\ TransitionKeyOf(r) = k
            /\ r.author = transition_writes[k].author
            /\ r.time_in_status_hours = transition_writes[k].time_in_status_hours
    ELSE \E x \in jira_transitions :
            /\ <<x.issue_id, x.from_status, x.to_status, x.transition_timestamp>> = k
            /\ x.author = transition_writes[k].author

\* C18: transitions that differ in any component of the composite key (issue
\* key, source status, destination status, event timestamp) are stored as
\* separate records, so the sink holds as many records as distinct composite
\* keys were written; writes with the same composite key leave one record with
\* the author and duration of the later write.
C18_OneRecordPerCompositeKey ==
    tsink_pc = "open" =>
        /\ Cardinality(IF tsink = "postgres" THEN transitions_jira ELSE jira_transitions)
             = Cardinality(DOMAIN transition_writes)
        /\ \A k \in DOMAIN transition_writes : StoredAsLastWritten(k)

\* C18 for the relational sink
PostgresOneRecordPerCompositeKey ==
    tsink = "postgres" => C18_OneRecordPerCompositeKey

\* the relational sink holds the five keys apart and the base key was rewritten
PostgresFiveKeysStored ==
    /\ tsink = "postgres" /\ Cardinality(transitions_jira) = 5
    /\ \E r \in transitions_jira :
          TransitionKeyOf(r) = TransitionKeyOf(BaseTransitionKey) /\ r.author = "bob"

\* two transitions of one issue at one timestamp with different statuses were
\* written to <prefix>_transitions, which holds one item
DynamodbKeptOneOfTwo ==
    /\ tsink = "dynamodb" /\ Cardinality(DOMAIN transition_writes) = 2
    /\ Cardinality(jira_transitions) = 1

\* ------------------------------------------------------------------ flow metrics per creation date

\* the most issues in the list handed to calculate_flow_metrics
MaxFlowIssues == 3

\* the issues the list is drawn from: two ids, created on day 1, on day 2, or
\* without a creation timestamp
DailyIssues ==
    {FlowIssue(id, created, "Done", Points(5)) :
        id \in {"TEST-1", "TEST-2"},
        created \in {NoCreated, Created(1, 9), Created(2, 9)}}

\* the transition lists tried: none, one issue with a cycle time of 5 days, and
\* two issues with cycle times of 5 and 2 days
DailyTransitionLists ==
    {<<>>,
     <<[issue_id |-> "TEST-1", to_status |-> "In Progress", transition_timestamp |-> At(0)],
       [issue_id |-> "TEST-1", to_status |-> "Done", transition_timestamp |-> At(10)]>>,
     <<[issue_id |-> "TEST-1", to_status |-> "In Progress", transition_timestamp |-> At(0)],
       [issue_id |-> "TEST-2", to_status |-> "In Progress", transition_timestamp |-> At(4)],
       [issue_id |-> "TEST-1", to_status |-> "Done", transition_timestamp |-> At(10)],
       [issue_id |-> "TEST-2", to_status |-> "Resolved", transition_timestamp |-> At(8)]>>}

DailyInit ==
    /\ flow_issues \in SeqsUpTo(DailyIssues, MaxFlowIssues)
    /\ flow_transitions \in DailyTransitionLists
    /\ daily_data = <<>>
    /\ cycle_times = <<>>
    /\ metrics = <<>>
    /\ flow_pc = "input"

InitDailyMetrics ==
    DailyInit /\ FetchIdle /\ TransIdle /\ StoryIdle /\ ForecastIdle /\ SinkIdle
    /\ BatchIdle /\ DeriveIdle /\ RunIdle /\ MainIdle /\ TsinkIdle
    /\ AuthorIdle

SpecDailyMetrics == InitDailyMetrics /\ [][FlowNext]_vars

\* ------------------------------------------------------------------ claims on the metric records

\* the positions of the input issues created on a date
CreatedOn(date) ==
    {i \in DOMAIN flow_issues :
        flow_issues[i].created # NoCreated /\ flow_issues[i].created[1].date = date}

CreationDates ==
    {flow_issues[i].created[1].date :
        i \in {j \in DOMAIN flow_issues : flow_issues[j].created # NoCreated}}

\* C19: calculate_flow_metrics returns exactly one metric record per distinct
\* creation date of the input issues: no two records share (team_id, date),
\* every creation date has a record, no record has another date, and
\* issues_created is the number of input issues created on the record's date.
C19_OneRecordPerCreationDate ==
    flow_pc = "returned" =>
        /\ \A i, j \in DOMAIN metrics :
              i # j => <<metrics[i].team_id, metrics[i].date>>
                         # <<metrics[j].team_id, metrics[j].date>>
        /\ {metrics[i].date : i \in DOMAIN metrics} = CreationDates
        /\ \A i \in DOMAIN metrics :
              metrics[i].issues_created = Cardinality(CreatedOn(metrics[i].date))

\* three issues, two of them created on day 1 and one on day 2: two records
C19_Witness ==
    /\ flow_pc = "returned"
    /\ Len(flow_issues) = 3
    /\ Cardinality(CreatedOn(1)) = 2 /\ Cardinality(CreatedOn(2)) = 1
    /\ Len(metrics) = 2
    /\ \E i \in DOMAIN metrics : metrics[i].date = 1 /\ metrics[i].issues_created = 2

\* C20: every metric record of one call carries the same avg_cycle_time, the
\* mean of all per-issue cycle times of the batch rounded to hundredths (0 when
\* no issue has one), whatever the record's date and the issues created on it.
C20_AvgCycleTimeIsGlobalMean ==
    flow_pc = "returned" =>
        \A i \in DOMAIN metrics :
            LET n == Cardinality(DOMAIN cycle_times)
                total == SumOver(cycle_times, DOMAIN cycle_times)
                avg == metrics[i].avg_cycle_time
            IN  IF n = 0 THEN avg = 0
                ELSE /\ 2 * (avg * n - 100 * total) <= n
                     /\ 2 * (100 * total - avg * n) <= n

\* cycle times of 5 and 2 days; the records of day 1 and of day 2 both carry 3.5,
\* while only TEST-1 was created on day 1
C20_Witness ==
    /\ flow_pc = "returned"
    /\ cycle_times = ("TEST-1" :> 5) @@ ("TEST-2" :> 2)
    /\ Len(metrics) = 2
    /\ metrics[1].avg_cycle_time = 350 /\ metrics[2].avg_cycle_time = 350
    /\ \A i \in CreatedOn(1) : flow_issues[i].issue_id = "TEST-1"

\* ------------------------------------------------------------------ created and completed counts

\* the issues the list is drawn from: created on day 1, on day 2 or without a
\* creation timestamp, in a completed or an open status
CountedIssues ==
    {FlowIssue("TEST-1", created, status, NoPoints) :
        created \in {NoCreated, Created(1, 9), Created(2, 9)},
        status \in {"Done", "Closed", "Resolved", "In Progress"}}

CountInit ==
    /\ flow_issues \in SeqsUpTo(CountedIssues, MaxFlowIssues)
    /\ flow_transitions = <<>>
    /\ daily_data = <<>>
    /\ cycle_times = <<>>
    /\ metrics = <<>>
    /\ flow_pc = "input"

InitCounts ==
    CountInit /\ FetchIdle /\ TransIdle /\ StoryIdle /\ ForecastIdle /\ SinkIdle
    /\ BatchIdle /\ DeriveIdle /\ RunIdle /\ MainIdle /\ TsinkIdle
    /\ AuthorIdle

SpecCounts == InitCounts /\ [][FlowNext]_vars

\* ------------------------------------------------------------------ claims on the counts

RECURSIVE TotalOver(_, _)
\* the sum of one counter over the first n metric records
TotalOver(field, n) ==
    IF n = 0 THEN 0 ELSE TotalOver(field, n - 1) + metrics[n][field]

\* the positions of the input issues that have a creation timestamp
Dated == {i \in DOMAIN flow_issues : flow_issues[i].created # NoCreated}

\* C25: in every metric record issues_completed is at most issues_created and
\* throughput equals issues_completed; over all records of one call,
\* issues_created sums to the number of input issues with a creation timestamp
\* and issues_completed to the number of those whose status is Done, Closed or
\* Resolved.
C25_CompletedAtMostCreated ==
    flow_pc = "returned" =>
        /\ \A i \in DOMAIN metrics :
              /\ metrics[i].issues_completed <= metrics[i].issues_created
              /\ metrics[i].throughput = metrics[i].issues_completed
        /\ TotalOver("issues_created", Len(metrics)) = Cardinality(Dated)
        /\ TotalOver("issues_completed", Len(metrics)) =
              Cardinality({i \in Dated :
                              flow_issues[i].status \in {"Done", "Closed", "Resolved"}})

\* three issues: one resolved and created on day 1, one open and created on day
\* 2, one done without a creation timestamp; two records, one completion
C25_Witness ==
    /\ flow_pc = "returned"
    /\ Len(flow_issues) = 3
    /\ \E i, j, k \in DOMAIN flow_issues :
          /\ flow_issues[i] = FlowIssue("TEST-1", Created(1, 9), "Resolved", NoPoints)
          /\ flow_issues[j] = FlowIssue("TEST-1", Created(2, 9), "In Progress", NoPoints)
          /\ flow_issues[k] = FlowIssue("TEST-1", NoCreated, "Done", NoPoints)
    /\ Len(metrics) = 2
    /\ TotalOver("issues_created", 2) = 2
    /\ TotalOver("issues_completed", 2) = 1

\* ------------------------------------------------------------------ author of a transition

\* the most history entries of the issue
MaxAuthorHistories == 3

\* the author of a history entry as the upstream sends it: an object with a
\* display name, null, or no author at all
UpstreamAuthors == {[kind |-> "present", name |-> "alice"],
                    [kind |-> "null", name |-> "alice"],
                    [kind |-> "absent", name |-> "alice"]}

\* the item lists of one history entry: a status change, a status change after
\* an item of another field, and no status change
AuthorItemLists ==
    {<<StatusItem("To Do", "In Progress")>>,
     <<OtherItem, StatusItem("In Progress", "Done")>>,
     <<OtherItem>>}

\* the history lists of the one issue, created one hour after another
AuthorHistoryLists ==
    UNION {{[h \in 1..n |-> [created |-> [local |-> 60 * h, offset |-> 0],
                             author |-> a[h], items |-> its[h]]] :
              a \in [1..n -> UpstreamAuthors], its \in [1..n -> AuthorItemLists]} :
           n \in 0..MaxAuthorHistories}

\* line 127 of extract_transitions:
\*   history.author.displayName if history.author else 'Unknown'
\* None is falsy; reading history.author of an object that was given no author
\* depends on the library object (AttributeError, or a falsy value)
LibraryAuthorName(author, unset_raises) ==
    CASE author.kind = "present" -> Returned(author.name)
      [] author.kind = "null" -> Returned("Unknown")
      [] OTHER -> IF unset_raises THEN Raised ELSE Returned("Unknown")

\* lines 274 and 281 of extract_jira_transitions:
\*   author = history.get('author', {});  author.get('displayName', 'Unknown')
\* the default {} is used for a missing key only; for a null author the first
\* get returns None and None.get raises AttributeError
RestAuthorName(author) ==
    CASE author.kind = "present" -> Returned(author.name)
      [] author.kind = "absent" -> Returned("Unknown")
      [] OTHER -> Raised

AuthorName(mode, author, unset_raises) ==
    IF mode = "extract_transitions" THEN LibraryAuthorName(author, unset_raises)
    ELSE RestAuthorName(author)

HasStatusItem(history) ==
    \E k \in DOMAIN history.items : history.items[k].field = "status"

\* the first history entry at which the loops raise: the author is looked up
\* for status items only (inside the if of lines 121 and 273); Len + 1 for none
FirstRaising(mode, histories, unset_raises) ==
    LET bad == {h \in DOMAIN histories :
                   /\ HasStatusItem(histories[h])
                   /\ AuthorName(mode, histories[h].author, unset_raises).raised}
    IN  IF bad = {} THEN Len(histories) + 1
        ELSE CHOOSE h \in bad : \A g \in bad : h <= g

\* the first n history entries with the author each lookup gave
WithAuthorNames(mode, histories, unset_raises, n) ==
    [h \in 1..n |->
        [histories[h] EXCEPT
            !.author = AuthorName(mode, histories[h].author, unset_raises).value]]

AuthorInit ==
    /\ author_mode \in {"extract_transitions", "extract_jira_transitions"}
    /\ author_unset_raises \in
          (IF author_mode = "extract_transitions" THEN BOOLEAN ELSE {FALSE})
    /\ author_histories \in AuthorHistoryLists
    /\ author_transitions = <<>>
    /\ author_error = "none"
    /\ author_pc = "input"

\* JiraETLConnector.extract_transitions on the one issue: nothing in the function
\* catches an exception, which leaves it before anything is returned
AuthorExtractTransitions ==
    /\ author_pc = "input"
    /\ author_mode = "extract_transitions"
    /\ UNCHANGED <<author_mode, author_unset_raises, author_histories>>
    /\ UNCHANGED notAuthor
    /\ author_pc' = "done"
    /\ LET n == Len(author_histories)
           stop == FirstRaising(author_mode, author_histories, author_unset_raises)
       IN  IF stop <= n
           THEN /\ author_error' = "raised"
                /\ UNCHANGED author_transitions
           ELSE /\ UNCHANGED author_error
                /\ author_transitions' =
                     extract_transitions(
                        <<IssueWithChangelog(1,
                            WithAuthorNames(author_mode, author_histories,
                                            author_unset_raises, n))>>)

\* JiraToDynamoDB.extract_jira_transitions on the one issue: the transitions
\* appended before the exception stay in the list and the except clause of
\* lines 287-289 goes on with the next issue
AuthorExtractJiraTransitions ==
    /\ author_pc = "input"
    /\ author_mode = "extract_jira_transitions"
    /\ UNCHANGED <<author_mode, author_unset_raises, author_histories>>
    /\ UNCHANGED notAuthor
    /\ author_pc' = "done"
    /\ LET n == Len(author_histories)
           stop == FirstRaising(author_mode, author_histories, author_unset_raises)
       IN  /\ author_error' = IF stop <= n THEN "caught" ELSE "none"
           /\ author_transitions' =
                JiraTransitionsOf(1, WithAuthorNames(author_mode, author_histories,
                                                     author_unset_raises, stop - 1))

AuthorNext == AuthorExtractTransitions \/ AuthorExtractJiraTransitions

InitAuthor ==
    AuthorInit /\ FetchIdle /\ TransIdle /\ StoryIdle /\ FlowIdle /\ ForecastIdle
    /\ SinkIdle /\ BatchIdle /\ DeriveIdle /\ RunIdle /\ MainIdle /\ TsinkIdle

SpecAuthor == InitAuthor /\ [][AuthorNext]_vars

\* ------------------------------------------------------------------ claims on the author

\* the status changes the upstream holds for the issue, in order, each with the
\* author the claim expects: the display name, or "Unknown" without an author
RECURSIVE ExpectedAuthors(_)
ExpectedAuthors(histories) ==
    IF histories = <<>> THEN <<>>
    ELSE LET history == histories[Len(histories)]
             items == SelectSeq(history.items, LAMBDA item : item.field = "status")
         IN  ExpectedAuthors(SubSeq(histories, 1, Len(histories) - 1))
             \o [i \in DOMAIN items |->
                   [from_status |-> items[i].fromString,
                    to_status |-> items[i].toString,
                    author |-> IF history.author.kind = "present"
                               THEN history.author.name ELSE "Unknown"]]

\* the transitions of the call, reduced to the same three fields
EmittedAuthors ==
    [i \in DOMAIN author_transitions |->
        [from_status |-> author_transitions[i].from_status,
         to_status |-> author_transitions[i].to_status,
         author |-> author_transitions[i].author]]

\* C23: every status change of the issue is emitted with a defined author: the
\* display name, or "Unknown" where the history entry's author is absent or
\* null; no error is raised, and the other status changes of the issue are
\* emitted all the same (extract_transitions and extract_jira_transitions).
C23_AuthorDefaultsToUnknown ==
    author_pc = "done" =>
        /\ author_error = "none"
        /\ EmittedAuthors = ExpectedAuthors(author_histories)

\* no author lookup of the call raised
NoAuthorLookupRaised ==
    FirstRaising(author_mode, author_histories, author_unset_raises)
        > Len(author_histories)

\* C23 holds for every call in which no lookup raises: for extract_transitions
\* with null authors, for extract_jira_transitions with absent authors
AuthorDefaultsUnlessLookupRaises ==
    NoAuthorLookupRaised => C23_AuthorDefaultsToUnknown

NullAuthorOfLibraryObjectIsUnknown ==
    /\ author_mode = "extract_transitions" /\ author_pc = "done"
    /\ Len(author_transitions) = 3
    /\ author_transitions[2].author = "Unknown"
    /\ author_transitions[1].author = "alice" /\ author_transitions[3].author = "alice"

AbsentAuthorOfRestEntryIsUnknown ==
    /\ author_mode = "extract_jira_transitions" /\ author_pc = "done"
    /\ Len(author_transitions) = 3
    /\ author_transitions[2].author = "Unknown"
    /\ author_transitions[1].author = "alice" /\ author_transitions[3].author = "alice"

\* the call of C23's failure: extract_jira_transitions on three status changes
\* of which the second has a null author; the first alone is emitted
NullAuthorOfRestEntryEndsTheIssue ==
    /\ author_mode = "extract_jira_transitions" /\ author_pc = "done"
    /\ Len(author_histories) = 3
    /\ \A h \in 1..3 : HasStatusItem(author_histories[h])
    /\ author_histories[1].author.kind = "present"
    /\ author_histories[2].author.kind = "null"
    /\ author_histories[3].author.kind = "present"
    /\ author_error = "caught"
    /\ Len(author_transitions) = 1

\* ------------------------------------------------------------------ all components

\* any one component at its entry
Init ==
    \/ InitFetch
    \/ InitTransitions
    \/ InitStoryPoints
    \/ InitFlowMetrics
    \/ InitForecast
    \/ InitSink
    \/ InitBatch
    \/ InitDerive
    \/ InitRun
    \/ InitMain
    \/ InitTsink
    \/ InitDailyMetrics
    \/ InitCounts
    \/ InitAuthor

Next ==
    \/ FetchNext
    \/ TransNext
    \/ StoryNext
    \/ FlowNext
    \/ ForecastNext
    \/ SinkNext
    \/ BatchNext
    \/ DeriveNext
    \/ RunNext
    \/ MainNext
    \/ TsinkNext
    \/ AuthorNext

Spec == Init /\ [][Next]_vars

====
